---- MODULE Spec2Model ----
(***************************************************************************)
(* A model of kpsn (kaijfox/size-norm): the structured array trace         *)
(* (kpsn/logging.py), model creation (kpsn/project/paths.py), the          *)
(* parameter-scan orchestrator and its evaluation functions                *)
(* (kpsn/fitting/scans.py), feature reduction (kpsn/io/features.py), the   *)
(* plotting styles (kpsn/viz/styles.py) and kpsn/util.py.                  *)
(*                                                                         *)
(* Numbers held in arrays are written in halves: 2 stands for 1, 3 for     *)
(* 1.5, 5 for 2.5, so that an integer dtype can truncate a float.          *)
(***************************************************************************)
EXTENDS Integers, Sequences, FiniteSets, TLC

VARIABLES
    tree,       \* ArrayTrace._tree: [init |-> FALSE] is None, else the leaf buffers
    call,       \* the most recent call, with its arguments
    ret,        \* what that call returned or raised
    dirs,       \* the directories that exist, as paths below the project root
    files,      \* the files that exist: path -> content
    lastRec,    \* history: per step, the report of the last successful record
    firstRep,   \* history: the report that initialized the trace
    reshapes,   \* history: how many shape-changing maps have been applied
    pc,         \* run_scan: where the call is
    idx,        \* run_scan: the position in the manifest of the model at hand
    scan_cfg,   \* run_scan: scan_config, the manifest as loaded
    model_cfg,  \* run_scan: model_config, the scan's base config as loaded
    force_restart,  \* run_scan: the argument
    log,        \* history: what the call under way has done, in order
    fitLeft,    \* history: each fitted model's directory as its fit left it
    failedAt,   \* history: the model whose step raised, with the error
    atCall,     \* history: the directories and files when run_scan was called
    plotting    \* the process-wide plotting state: style, context, active colors

traceVars == <<tree, lastRec, firstRep, reshapes>>

fsVars == <<dirs, files>>

runVars ==
    <<pc, idx, scan_cfg, model_cfg, force_restart, log, fitLeft, failedAt,
      atCall>>

vars ==
    <<tree, call, ret, dirs, files, lastRec, firstRep, reshapes, pc, idx,
      scan_cfg, model_cfg, force_restart, log, fitLeft, failedAt, atCall,
      plotting>>

\* no run_scan call is under way
NoRun ==
    /\ pc = "idle"
    /\ idx = 0
    /\ scan_cfg = [models |-> <<>>]
    /\ model_cfg = <<>>
    /\ force_restart = FALSE
    /\ log = <<>>
    /\ fitLeft = <<>>
    /\ failedAt = [at |-> 0]
    /\ atCall = [dirs |-> {}, files |-> <<>>]

\* the plotting state of a process that has selected no style
NoStyle ==
    plotting = [rc |-> "default", context |-> "notebook", active |-> "none"]

(***************************************************************************)
(* Bounds                                                                  *)
(***************************************************************************)
NSteps == 2         \* n_steps of the trace under test
MaxReshapes == 1    \* cap on the number of shape-changing maps applied

Steps == 0 .. (NSteps - 1)

(***************************************************************************)
(* Reports: a pytree (here a dict) of leaves.  A leaf is a Python number   *)
(* (kind "py": it has no .shape attribute) or an array (kind "array").     *)
(***************************************************************************)
PathOrder == <<"a", "b">>      \* the order in which tree_map visits dict keys

Paths == {PathOrder[i] : i \in 1 .. Len(PathOrder)}

LeavesA ==
    { [kind |-> "py",    dtype |-> "int",   shape |-> <<>>,  data |-> <<2>>],
      [kind |-> "py",    dtype |-> "float", shape |-> <<>>,  data |-> <<3>>],
      [kind |-> "array", dtype |-> "int",   shape |-> <<2>>, data |-> <<2, 4>>],
      [kind |-> "array", dtype |-> "float", shape |-> <<2>>, data |-> <<1, 3>>] }

LeavesB ==
    { [kind |-> "py",    dtype |-> "float", shape |-> <<>>,  data |-> <<3>>],
      [kind |-> "array", dtype |-> "int",   shape |-> <<2>>, data |-> <<2, 4>>] }

Reports ==
    [{"a"} -> LeavesA]
        \cup {[p \in {"a", "b"} |-> IF p = "a" THEN la ELSE lb] :
                  la \in LeavesA, lb \in LeavesB}

MapFuncs == {"zeros_like", "expand_dims"}

RECURSIVE Prod(_)
Prod(shape) == IF shape = <<>> THEN 1 ELSE Head(shape) * Prod(Tail(shape))

Zeros(n) == [i \in 1 .. n |-> 0]

\* x.astype(dtype) of a non-negative number: an integer dtype truncates
Cast(dtype, v) == IF dtype = "int" THEN (v \div 2) * 2 ELSE v

CastAll(dtype, data) == [i \in 1 .. Len(data) |-> Cast(dtype, data[i])]

NoTree == [init |-> FALSE]

NoReport == [none |-> TRUE]

(***************************************************************************)
(* ArrayTrace                                                              *)
(***************************************************************************)
\* initialize: one zero buffer of shape (n_steps,) + leaf.shape per leaf, in
\* the leaf's dtype
Initialize(report) ==
    [p \in DOMAIN report |->
        [dtype |-> report[p].dtype,
         shape |-> <<NSteps>> \o report[p].shape,
         rows  |-> [s \in 1 .. NSteps |-> Zeros(Prod(report[p].shape))]]]

\* trace[step].shape for a step in range
StepShape(buf) == Tail(buf.shape)

\* a record that keeps what a slot already holds
SetAtKeepFirst(buf, step, leaf) ==
    IF buf.rows[step + 1] = Zeros(Len(buf.rows[step + 1]))
    THEN [buf EXCEPT !.rows[step + 1] = CastAll(buf.dtype, leaf.data)]
    ELSE buf

\* trace.at[step].set(report_leaf): the value is converted to the buffer's dtype
SetAt(buf, step, leaf) ==
    [buf EXCEPT !.rows[step + 1] = CastAll(buf.dtype, leaf.data)]

\* the condition of record's lambda
ShapeMatches(buf, leaf) == leaf.shape = StepShape(buf)

Mismatched(leaves, report) ==
    {p \in DOMAIN leaves : ~ShapeMatches(leaves[p], report[p])}

FirstMismatch(leaves, report) ==
    PathOrder[CHOOSE i \in 1 .. Len(PathOrder) :
                 /\ PathOrder[i] \in Mismatched(leaves, report)
                 /\ \A j \in 1 .. (i - 1) :
                        PathOrder[j] \notin Mismatched(leaves, report)]

\* the else branch of record's lambda: the message is formatted from
\* report_leaf.shape, which a Python number does not have
MismatchError(p, buf, leaf) ==
    IF leaf.kind = "py"
    THEN [kind |-> "raise", exc |-> "AttributeError"]
    ELSE [kind |-> "raise", exc |-> "ValueError", path |-> p,
          offered |-> leaf.shape, expected |-> StepShape(buf)]

StructureError == [kind |-> "raise", exc |-> "ValueError", structure |-> TRUE]

Returned(v) == [kind |-> "return", val |-> v]

\* a record that allocates the buffers anew on every call
RecordReinit(t, report, step) ==
    [tree |-> [init |-> TRUE,
               leaves |-> [p \in DOMAIN report |->
                              SetAt(Initialize(report)[p], step, report[p])]],
     ret |-> Returned("None")]

\* record(reports, step): the trace's leaves and the outcome
RecordOutcome(t, report, step) ==
    LET leaves == IF t.init THEN t.leaves ELSE Initialize(report)
        inited == [init |-> TRUE, leaves |-> leaves]
    IN  IF DOMAIN report # DOMAIN leaves
        THEN [tree |-> inited, ret |-> StructureError]
        ELSE IF Mismatched(leaves, report) # {}
        THEN LET p == FirstMismatch(leaves, report)
             IN  [tree |-> inited,
                  ret |-> MismatchError(p, leaves[p], report[p])]
        ELSE [tree |-> [init |-> TRUE,
                        leaves |-> [p \in DOMAIN leaves |->
                                       SetAt(leaves[p], step, report[p])]],
              ret |-> Returned("None")]

\* __getitem__(step): arr[step] of every leaf
GetItem(t, step) ==
    IF t.init
    THEN [p \in DOMAIN t.leaves |->
             [dtype |-> t.leaves[p].dtype,
              shape |-> StepShape(t.leaves[p]),
              data  |-> t.leaves[p].rows[step + 1]]]
    ELSE [p \in {} |-> 0]

\* the functions map is called with
ApplyFunc(f, buf) ==
    IF f = "zeros_like"
    THEN [buf EXCEPT !.rows = [s \in DOMAIN buf.rows |->
                                  Zeros(Len(buf.rows[s]))]]
    ELSE [buf EXCEPT !.shape = buf.shape \o <<1>>]

\* map(func): tree_map(func, self._tree)
MapTree(t, f) ==
    IF t.init
    THEN [t EXCEPT !.leaves = [p \in DOMAIN t.leaves |->
                                  ApplyFunc(f, t.leaves[p])]]
    ELSE t

\* copy(): a new trace of the same step count with a copy of every buffer
CopyTrace(t) == [n_steps |-> NSteps, tree |-> t]

NewTrace ==
    /\ tree = NoTree
    /\ lastRec = [s \in Steps |-> NoReport]
    /\ firstRep = NoReport
    /\ reshapes = 0

InitTrace ==
    /\ NewTrace
    /\ call = [op |-> "new"]
    /\ ret = Returned("None")
    /\ dirs = {}
    /\ files = <<>>
    /\ NoRun
    /\ NoStyle

Record(report, step) ==
    LET out == RecordOutcome(tree, report, step)
    IN  /\ tree' = out.tree
        /\ call' = [op |-> "record", step |-> step]
        /\ ret' = out.ret
        /\ lastRec' = IF out.ret.kind = "return"
                      THEN [lastRec EXCEPT ![step] = report]
                      ELSE lastRec
        /\ firstRep' = IF tree.init THEN firstRep ELSE report
        /\ UNCHANGED <<reshapes, fsVars, runVars, plotting>>

Read ==
    /\ call' = [op |-> "read"]
    /\ ret' = Returned(tree)
    /\ UNCHANGED <<tree, lastRec, firstRep, reshapes, fsVars, runVars, plotting>>

IndexedRead(step) ==
    /\ call' = [op |-> "getitem", step |-> step]
    /\ ret' = Returned(GetItem(tree, step))
    /\ UNCHANGED <<tree, lastRec, firstRep, reshapes, fsVars, runVars, plotting>>

Map(f) ==
    /\ (tree.init /\ f = "expand_dims") => reshapes < MaxReshapes
    /\ tree' = MapTree(tree, f)
    /\ call' = [op |-> "map", func |-> f]
    /\ ret' = Returned("None")
    /\ reshapes' = IF tree.init /\ f = "expand_dims"
                   THEN reshapes + 1 ELSE reshapes
    /\ UNCHANGED <<lastRec, firstRep, fsVars, runVars, plotting>>

Copy ==
    /\ call' = [op |-> "copy"]
    /\ ret' = Returned(CopyTrace(tree))
    /\ UNCHANGED <<tree, lastRec, firstRep, reshapes, fsVars, runVars, plotting>>

NextTrace ==
    \/ \E report \in Reports, step \in Steps : Record(report, step)
    \/ Read
    \/ \E step \in Steps : IndexedRead(step)
    \/ \E f \in MapFuncs : Map(f)
    \/ Copy

SpecTrace == InitTrace /\ [][NextTrace]_vars

\* record and the reads only: no map is applied
NextRecord ==
    \/ \E report \in Reports, step \in Steps : Record(report, step)
    \/ Read
    \/ \E step \in Steps : IndexedRead(step)

SpecRecord == InitTrace /\ [][NextRecord]_vars

(***************************************************************************)
(* Properties of ArrayTrace                                                *)
(***************************************************************************)
\* what the slot of step s holds for leaf p when the last record at s offered
\* exactly the values `want` (zeros when s was never recorded)
SlotHolds(s, p, want) == GetItem(tree, s)[p].data = want

\* C1 as stated: under records only, the indexed read of step s returns, for
\* every leaf, the value of the most recent record at s, and zeros for a step
\* never recorded.
C1_LastWriteWinsExact ==
    tree.init =>
        \A s \in Steps : \A p \in DOMAIN tree.leaves :
            IF lastRec[s] = NoReport
            THEN SlotHolds(s, p, Zeros(Prod(firstRep[p].shape)))
            ELSE SlotHolds(s, p, lastRec[s][p].data)

\* C1 amended: under records only, the indexed read of step s returns, for every
\* leaf, the value of the most recent record at s converted to the dtype of that
\* leaf in the first report (the recorded value itself when the dtypes agree),
\* and zeros for a step never recorded; hence a record at s changes no other slot.
C1_LastWriteWinsCast ==
    tree.init =>
        \A s \in Steps : \A p \in DOMAIN tree.leaves :
            IF lastRec[s] = NoReport
            THEN SlotHolds(s, p, Zeros(Prod(firstRep[p].shape)))
            ELSE SlotHolds(s, p, CastAll(firstRep[p].dtype, lastRec[s][p].data))

\* a step recorded at least twice, the later report differing from the first,
\* while every other step was never recorded
C1_Witness ==
    /\ tree.init
    /\ call.op = "record"
    /\ ret.kind = "return"
    /\ \E s \in Steps :
          /\ lastRec[s] \notin {NoReport, firstRep}
          /\ \A s2 \in Steps \ {s} : lastRec[s2] = NoReport

\* C2 as stated: a record on an initialized trace whose report has the trace's
\* structure and a leaf of another shape raises ValueError naming that leaf's
\* path, the offered shape and the expected shape, whatever the kind of the
\* leaf, and leaves the buffers as they were.
C2_MismatchRaisesValueError ==
    [][\A report \in Reports, step \in Steps :
          ( /\ Record(report, step)
            /\ tree.init
            /\ DOMAIN report = DOMAIN tree.leaves
            /\ Mismatched(tree.leaves, report) # {} )
          => ( /\ tree' = tree
               /\ ret'.kind = "raise"
               /\ ret'.exc = "ValueError"
               /\ LET p == FirstMismatch(tree.leaves, report)
                  IN  ret' = [kind |-> "raise", exc |-> "ValueError",
                              path |-> p, offered |-> report[p].shape,
                              expected |-> StepShape(tree.leaves[p])] )]_vars

\* C3 as stated: a new trace is uninitialized, the first record initializes it,
\* and after that, under record, map, copy and the reads, it stays initialized
\* with the leaf structure and the buffer shapes (n_steps, *leaf_shape) of the
\* first report.
C3_ShapeNeverChanges ==
    /\ call.op = "new" => ~tree.init
    /\ tree.init <=> firstRep # NoReport
    /\ tree.init =>
          /\ DOMAIN tree.leaves = DOMAIN firstRep
          /\ \A p \in DOMAIN tree.leaves :
                tree.leaves[p].shape = <<NSteps>> \o firstRep[p].shape

\* C3 amended: as C3, for as long as no map has been applied whose function
\* returns a buffer of another shape; map replaces each buffer by whatever its
\* function returns.
C3_ShapeStableUnderShapePreservingOps ==
    /\ call.op = "new" => ~tree.init
    /\ tree.init <=> firstRep # NoReport
    /\ (tree.init /\ reshapes = 0) =>
          /\ DOMAIN tree.leaves = DOMAIN firstRep
          /\ \A p \in DOMAIN tree.leaves :
                /\ tree.leaves[p].shape = <<NSteps>> \o firstRep[p].shape
                /\ tree.leaves[p].dtype = firstRep[p].dtype
                /\ DOMAIN tree.leaves[p].rows = 1 .. NSteps
                /\ \A s \in 1 .. NSteps :
                      Len(tree.leaves[p].rows[s]) = Prod(firstRep[p].shape)

\* an initialized trace after a shape-preserving map, a record of a report
\* other than the first and a copy
C3_Witness ==
    /\ tree.init
    /\ reshapes = 0
    /\ call.op = "copy"
    /\ ret.val.tree = tree
    /\ \E s \in Steps : lastRec[s] \notin {NoReport, firstRep}
    /\ \E p \in DOMAIN tree.leaves : \E s \in Steps :
          /\ lastRec[s] # NoReport
          /\ GetItem(tree, s)[p].data = Zeros(Prod(firstRep[p].shape))

(***************************************************************************)
(* Configuration documents (kpsn/config.py, which is not among the source  *)
(* files: modelled from the specification).  A nested key-value document   *)
(* is written as the function from the paths of its leaves to their        *)
(* values; a flattened mapping has the same paths as its dotted keys, so   *)
(* deepen and flatten change the form of a mapping and not this function.  *)
(***************************************************************************)
EmptyDoc == <<>>

IsPrefix(a, b) == Len(a) <= Len(b) /\ SubSeq(b, 1, Len(a)) = a

Drop(p, n) == SubSeq(p, n + 1, Len(p))

\* the sub-document under the keys `pre`
Sub(doc, pre) ==
    [q \in {Drop(p, Len(pre)) : p \in {r \in DOMAIN doc : IsPrefix(pre, r) /\ r # pre}}
        |-> doc[pre \o q]]

\* the document {pre: sub}
Nest(pre, sub) ==
    [p \in {pre \o q : q \in DOMAIN sub} |-> sub[Drop(p, Len(pre))]]

\* deepen(flat): dotted keys to nested keys
Deepen(flat) == flat

\* flatten(nested): nested keys to dotted keys
Flatten(nested) == nested

\* recursive_update(d, u): u deep-merged onto d.  Where u holds a value at a
\* key, that value replaces what d holds there unless both are mappings.
RecursiveUpdate(d, u) ==
    LET keep == {q \in DOMAIN d :
                    \A p \in DOMAIN u : ~IsPrefix(q, p) /\ ~IsPrefix(p, q)}
    IN  [q \in keep \cup DOMAIN u |-> IF q \in DOMAIN u THEN u[q] ELSE d[q]]

\* {**d, **u}: the top-level keys of u replace those of d
DictUnpack(d, u) ==
    LET keys == {Head(p) : p \in DOMAIN u}
        keep == {q \in DOMAIN d : Head(q) \notin keys}
    IN  [q \in keep \cup DOMAIN u |-> IF q \in DOMAIN u THEN u[q] ELSE d[q]]

\* doc[key] = sub
SetItem(doc, key, sub) == DictUnpack(doc, Nest(<<key>>, sub))

(***************************************************************************)
(* Project paths (kpsn/project/paths.py).  A name is a sequence of text    *)
(* pieces, a path the sequence of names below the project root.            *)
(***************************************************************************)
Lit(text) == <<text>>

NoName == <<>>                      \* name=None

Root == <<>>                        \* Project.root()

ScansDir == <<Lit("scans")>>

ModelsDir == <<Lit("models")>>

Scan(scan_name) == <<Lit("scans"), scan_name>>              \* Project.scan

Model(model_name) == <<Lit("models"), model_name>>          \* Project.model

BaseModelConfig == <<Lit("base_model.yml")>>     \* Project.base_model_config

ModelConfig(model_name) ==                              \* Project.model_config
    <<Lit("models"), model_name, Lit("model.yml")>>

Parent(path) == SubSeq(path, 1, Len(path) - 1)

Raised(exc) == [kind |-> "raise", exc |-> exc]

\* a mkdir that takes no notice of exist_ok
MkdirStrict(d, f, path, exist_ok) ==
    IF path \in d \/ path \in DOMAIN f
    THEN [dirs |-> d, ret |-> Raised("FileExistsError")]
    ELSE IF Parent(path) \notin d
    THEN [dirs |-> d, ret |-> Raised("FileNotFoundError")]
    ELSE [dirs |-> d \cup {path}, ret |-> Returned("None")]

\* Path.mkdir(exist_ok=...) without parents
Mkdir(d, f, path, exist_ok) ==
    IF path \in d
    THEN IF exist_ok THEN [dirs |-> d, ret |-> Returned("None")]
         ELSE [dirs |-> d, ret |-> Raised("FileExistsError")]
    ELSE IF path \in DOMAIN f
    THEN [dirs |-> d, ret |-> Raised("FileExistsError")]
    ELSE IF Parent(path) \notin d
    THEN [dirs |-> d, ret |-> Raised("FileNotFoundError")]
    ELSE [dirs |-> d \cup {path}, ret |-> Returned("None")]

\* ensure_dirs(project): root.mkdir(parents=True, exist_ok=True), then the
\* scans and models areas
EnsureDirsOf(d) == d \cup {Root, ScansDir, ModelsDir}

\* save_model_config / save_config: the file at path holds the document
WriteFile(f, path, doc) ==
    [q \in DOMAIN f \cup {path} |-> IF q = path THEN doc ELSE f[q]]

AProject == [kind |-> "Project"]

APath(path) == [kind |-> "path", path |-> path]

NoConfig == [kind |-> "none"]

ADict(doc) == [kind |-> "dict", doc |-> doc]

\* create_model that takes the project's base config whenever none is given
CreateModelDefaulting(d, f, project, name, config, config_overrides) ==
    LET model_dir == IF project.kind = "path" THEN Parent(project.path)
                     ELSE Model(name)
        config_path == IF project.kind = "path" THEN project.path
                       ELSE ModelConfig(name)
        merged == RecursiveUpdate(IF config.kind = "dict" THEN config.doc
                                  ELSE f[BaseModelConfig],
                                  Deepen(config_overrides))
    IN  [dirs |-> d \cup {model_dir},
         files |-> WriteFile(f, config_path, merged),
         ret |-> Returned(<<model_dir, merged>>)]

\* create_model(project, name, config, config_overrides) on the directories d
\* and files f: the directories and files it leaves, and its outcome
CreateModelOutcome(d, f, project, name, config, config_overrides) ==
    LET is_path == project.kind = "path"
        model_dir == IF is_path THEN Parent(project.path) ELSE Model(name)
        config_path == IF is_path THEN project.path ELSE ModelConfig(name)
        config1 == IF ~is_path /\ config.kind = "none"
                   THEN APath(BaseModelConfig) ELSE config
        fail(exc) == [dirs |-> d, files |-> f, ret |-> Raised(exc)]
    IN  IF is_path /\ config.kind = "none" THEN fail("ValueError")
        ELSE IF ~is_path /\ name = NoName THEN fail("ValueError")
        ELSE IF config1.kind = "path" /\ config1.path \notin DOMAIN f
        THEN fail("FileNotFoundError")
        ELSE
        LET loaded == IF config1.kind = "path" THEN f[config1.path]
                      ELSE config1.doc
            merged == RecursiveUpdate(loaded, Deepen(config_overrides))
            made == Mkdir(d, f, model_dir, TRUE)
        IN  IF made.ret.kind = "raise"
            THEN [dirs |-> d, files |-> f, ret |-> made.ret]
            ELSE IF config_path \in made.dirs
            THEN [dirs |-> made.dirs, files |-> f,
                  ret |-> Raised("IsADirectoryError")]
            ELSE [dirs |-> made.dirs,
                  files |-> WriteFile(f, config_path, merged),
                  ret |-> Returned(<<model_dir, merged>>)]

(***************************************************************************)
(* The values create_model is called with                                  *)
(***************************************************************************)
BaseDoc(fit_type) ==
    (<<"dataset">> :> "mice") @@ (<<"fit", "type">> :> fit_type)
        @@ (<<"fit", "n_steps">> :> "100")

OtherDoc ==
    (<<"dataset">> :> "rats") @@ (<<"fit", "type">> :> "standard")

Artifact(text) == (<<"artifact">> :> text)

ModelNames == {Lit("m0"), Lit("m1")}

OverrideSets ==
    { EmptyDoc,
      (<<"fit", "n_steps">> :> "50") @@ (<<"morph", "scale">> :> "0.5") }

Targets ==
    { AProject,
      APath(<<Lit("elsewhere"), Lit("model.yml")>>) }

Configs == {NoConfig, ADict(OtherDoc), APath(BaseModelConfig)}

\* a project directory holding its base model config, before or after
\* ensure_dirs, in the second case possibly with a stray file where a model
\* directory would go
InitProject ==
    /\ \E laid_out \in BOOLEAN, stray \in BOOLEAN :
          /\ stray => laid_out
          /\ dirs = IF laid_out THEN EnsureDirsOf({Root}) ELSE {Root}
          /\ files = IF stray
                     THEN WriteFile(WriteFile(<<>>, BaseModelConfig,
                                              BaseDoc("standard")),
                                    Model(Lit("m1")), Artifact("notes"))
                     ELSE WriteFile(<<>>, BaseModelConfig, BaseDoc("standard"))
    /\ call = [op |-> "Project"]
    /\ ret = Returned("None")
    /\ NewTrace
    /\ NoRun
    /\ NoStyle

EnsureDirs ==
    /\ dirs' = EnsureDirsOf(dirs)
    /\ call' = [op |-> "ensure_dirs"]
    /\ ret' = Returned("None")
    /\ UNCHANGED <<files, traceVars, runVars, plotting>>

CreateModel(project, name, config, config_overrides) ==
    LET out == CreateModelOutcome(dirs, files, project, name, config,
                                  config_overrides)
    IN  /\ dirs' = out.dirs
        /\ files' = out.files
        /\ call' = [op |-> "create_model", project |-> project, name |-> name,
                    config |-> config, config_overrides |-> config_overrides]
        /\ ret' = out.ret
        /\ UNCHANGED <<traceVars, runVars, plotting>>

NextCreate ==
    \/ EnsureDirs
    \/ \E project \in Targets, name \in ModelNames \cup {NoName},
          config \in Configs, config_overrides \in OverrideSets :
            CreateModel(project, name, config, config_overrides)

SpecCreate == InitProject /\ [][NextCreate]_vars

(***************************************************************************)
(* Properties of create_model                                              *)
(***************************************************************************)
\* the last call was create_model(project, name, ...) with a Project and a name
CalledWithProjectAndName ==
    /\ call.op = "create_model"
    /\ call.project.kind = "Project"
    /\ call.name # NoName

\* the config the last create_model call was given (the project's base model
\* config when none), deep-merged with its overrides
MergedOfCall ==
    RecursiveUpdate(IF call.config.kind = "dict" THEN call.config.doc
                    ELSE files[BaseModelConfig],
                    call.config_overrides)

\* the model directory exists, its model.yml holds the merged config, both
\* were returned, and the same call made again changes nothing
CreatedAndPersisted ==
    /\ ret = Returned(<<Model(call.name), MergedOfCall>>)
    /\ Model(call.name) \in dirs
    /\ ModelConfig(call.name) \in DOMAIN files
    /\ files[ModelConfig(call.name)] = MergedOfCall
    /\ CreateModelOutcome(dirs, files, call.project, call.name, call.config,
                          call.config_overrides)
         = [dirs |-> dirs, files |-> files, ret |-> ret]

\* C7: create_model with a str/PathLike target and no config, or with a Project
\* and no name, raises ValueError, and no directory or file is created or
\* written by that call.
C7_ArgumentValidation ==
    [][( /\ call'.op = "create_model"
         /\ \/ call'.project.kind = "path" /\ call'.config.kind = "none"
            \/ call'.project.kind = "Project" /\ call'.name = NoName )
       => ( /\ ret' = Raised("ValueError")
            /\ dirs' = dirs
            /\ files' = files )]_vars

\* a path target whose directory does not exist, called without a config
C7_Witness ==
    /\ call.op = "create_model"
    /\ call.project.kind = "path"
    /\ call.config.kind = "none"
    /\ ret = Raised("ValueError")
    /\ Parent(call.project.path) \notin dirs
    /\ call.project.path \notin DOMAIN files

\* C8 as stated: create_model with a Project and a name creates models/<name>
\* if absent, succeeds if it exists, writes model.yml equal to the given (or
\* base) config deep-merged with the overrides, returns directory and config,
\* and is idempotent.
C8_CreatesAndPersists == CalledWithProjectAndName => CreatedAndPersisted

\* C8 amended: the same, provided the project's models/ directory exists and
\* models/<name> is not a regular file.  Otherwise the call raises
\* (FileNotFoundError when models/ is absent, since mkdir is called without
\* parents; FileExistsError for a regular file) and neither the directory nor
\* its model.yml exists afterwards.
C8_CreatesAndPersistsInLaidOutProject ==
    CalledWithProjectAndName =>
        IF ModelsDir \in dirs /\ Model(call.name) \notin DOMAIN files
        THEN CreatedAndPersisted
        ELSE /\ ret = Raised(IF ModelsDir \in dirs THEN "FileExistsError"
                             ELSE "FileNotFoundError")
             /\ Model(call.name) \notin dirs
             /\ ModelConfig(call.name) \notin DOMAIN files

\* a second model created in a project that already holds another one, from
\* the base config with overrides that change it
C8_Witness ==
    /\ CalledWithProjectAndName
    /\ ret.kind = "return"
    /\ call.config.kind = "none"
    /\ call.config_overrides # EmptyDoc
    /\ files[ModelConfig(call.name)] # files[BaseModelConfig]
    /\ \E other \in ModelNames \ {call.name} : ModelConfig(other) \in DOMAIN files

(***************************************************************************)
(* setup_scan_config (kpsn/fitting/scans.py)                               *)
(***************************************************************************)
MaxValues == 2      \* the longest value list of a parameter grid

Digits == <<"0", "1", "2", "3", "4", "5">>

Str(i) == Digits[i + 1]             \* str(i) as str.format writes it

\* model_name_fmt: literal text and replacement fields
DefaultFmt == <<[field |-> "scan_name"], [lit |-> "_"], [field |-> "i"]>>

NameFmts ==
    { DefaultFmt,
      <<[lit |-> "m_"], [field |-> "scan_name"]>> }

\* name_fmt_string.format(scan_name=..., i=...)
RECURSIVE Format(_, _, _)
Format(fmt, scan_name, i) ==
    IF fmt = <<>> THEN <<>>
    ELSE LET piece == Head(fmt)
             text == IF "lit" \in DOMAIN piece THEN <<piece.lit>>
                     ELSE IF piece.field = "scan_name" THEN scan_name
                     ELSE <<Str(i)>>
         IN  text \o Format(Tail(fmt), scan_name, i)

\* the parameters a grid may declare, with the values it may list for each
ParamValues ==
    (<<"fit", "n_steps">> :> <<"100", "200", "300", "400">>)
        @@ (<<"morph", "scale">> :> <<"1.0", "2.0", "3.0", "4.0">>)

Grids ==
    {[q \in P |-> SubSeq(ParamValues[q], 1, n)] :
        P \in {{}, {<<"fit", "n_steps">>}, DOMAIN ParamValues},
        n \in 1 .. MaxValues}

\* fit_types["split"].defaults (kpsn/fitting/methods.py is not among the
\* source files)
SplitDefaults ==
    (<<"split_all">> :> "false") @@ (<<"split_type">> :> "bodies")
        @@ (<<"split_count">> :> "2")

ScanOverrideSets ==
    { (<<"split_count">> :> "4"),
      (<<"type">> :> "standard") }

ModelOverrideSets ==
    { EmptyDoc,
      (<<"fit", "type">> :> "split"),
      (<<"fit", "type">> :> "standard") @@ (<<"fit", "n_steps">> :> "50") }

ScanName == Lit("scan")

ScanYml(scan_name) == Scan(scan_name) \o <<Lit("scan.yml")>>

ScanBaseModelYml(scan_name) == Scan(scan_name) \o <<Lit("base_model.yml")>>

\* n_models: the length of the first parameter's list (all lists of a grid
\* have one length)
NModels(scan_params) ==
    Len(scan_params[CHOOSE q \in DOMAIN scan_params : TRUE])

\* overrides that give every model the first value of each list
ParamsOfFirst(scan_params, i) ==
    [q \in DOMAIN scan_params |-> scan_params[q][1]]

\* {p_name: p_vals[i] for p_name, p_vals in scan_params.items()}
ParamsOfModel(scan_params, i) ==
    [q \in DOMAIN scan_params |-> scan_params[q][i + 1]]

\* d[key] = value on an insertion-ordered dict of (name, params) entries
DictInsert(d, key, value) ==
    IF \E k \in 1 .. Len(d) : d[k].name = key
    THEN [k \in 1 .. Len(d) |->
             IF d[k].name = key THEN [name |-> key, params |-> value] ELSE d[k]]
    ELSE Append(d, [name |-> key, params |-> value])

\* the dict comprehension over range(n_models), up to index n
RECURSIVE ModelsUpTo(_, _, _, _)
ModelsUpTo(fmt, scan_name, scan_params, n) ==
    IF n = 0 THEN <<>>
    ELSE DictInsert(ModelsUpTo(fmt, scan_name, scan_params, n - 1),
                    Format(fmt, scan_name, n - 1),
                    ParamsOfModel(scan_params, n - 1))

\* config: the scan manifest
ScanManifest(fmt, scan_name, scan_params) ==
    [models |-> ModelsUpTo(fmt, scan_name, scan_params, NModels(scan_params))]

\* the project's base model config with model_overrides overlaid
OverlaidModelConfig(f, model_overrides) ==
    RecursiveUpdate(f[BaseModelConfig], Deepen(model_overrides))

\* the fit section of the derived config
SplitFit(model_config, scan_config_overrides) ==
    LET scan_config == RecursiveUpdate(SplitDefaults,
                                       Deepen(scan_config_overrides))
    IN  DictUnpack(DictUnpack((<<"type">> :> "split"), scan_config),
                   Nest(<<"em">>, Sub(model_config, <<"fit">>)))

\* directories left by a setup that lays the project out before it looks at
\* the base model
DirsLaidOutFirst(d, name) == EnsureDirsOf(d) \cup {Scan(name)}

\* the directories a rejected setup leaves: the fit type is tested before
\* ensure_dirs and scan_dir.mkdir
DirsWhenRejected(d, name) == d

\* setup_scan_config on the directories d and files f: the directories and
\* files it leaves, and its outcome
SetupScanOutcome(d, f, name, scan_params, scan_config_overrides, model_name_fmt, model_overrides) ==
    IF DOMAIN Flatten(scan_params) = {}
    THEN [dirs |-> d, files |-> f, ret |-> Raised("IndexError")]
    ELSE
    LET config == ScanManifest(model_name_fmt, name, Flatten(scan_params))
        overlaid == OverlaidModelConfig(f, model_overrides)
    IN  IF overlaid[<<"fit", "type">>] # "standard"
        THEN [dirs |-> DirsWhenRejected(d, name), files |-> f,
              ret |-> Raised("ValueError")]
        ELSE
        LET model_config ==
                SetItem(overlaid, "fit", SplitFit(overlaid, scan_config_overrides))
            laid == EnsureDirsOf(d)
            made == Mkdir(laid, f, Scan(name), TRUE)
        IN  IF made.ret.kind = "raise"
            THEN [dirs |-> laid, files |-> f, ret |-> made.ret]
            ELSE [dirs |-> made.dirs,
                  files |-> WriteFile(WriteFile(f, ScanYml(name), config),
                                      ScanBaseModelYml(name), model_config),
                  ret |-> Returned(<<config, model_config>>)]

\* a project directory holding a base model config of either fit type, before
\* or after ensure_dirs
InitSetup ==
    /\ \E laid_out \in BOOLEAN, fit_type \in {"standard", "split"} :
          /\ dirs = IF laid_out THEN EnsureDirsOf({Root}) ELSE {Root}
          /\ files = WriteFile(<<>>, BaseModelConfig, BaseDoc(fit_type))
    /\ call = [op |-> "Project"]
    /\ ret = Returned("None")
    /\ NewTrace
    /\ NoRun
    /\ NoStyle

SetupScanConfig(name, scan_params, scan_config_overrides, model_name_fmt, model_overrides) ==
    LET out == SetupScanOutcome(dirs, files, name, scan_params,
                                scan_config_overrides, model_name_fmt,
                                model_overrides)
    IN  /\ dirs' = out.dirs
        /\ files' = out.files
        /\ call' = [op |-> "setup_scan_config", name |-> name,
                    scan_params |-> scan_params,
                    scan_config_overrides |-> scan_config_overrides,
                    model_name_fmt |-> model_name_fmt,
                    model_overrides |-> model_overrides]
        /\ ret' = out.ret
        /\ UNCHANGED <<traceVars, runVars, plotting>>

NextSetup ==
    \/ EnsureDirs
    \/ \E scan_params \in Grids, scan_config_overrides \in ScanOverrideSets,
          model_name_fmt \in NameFmts, model_overrides \in ModelOverrideSets :
            SetupScanConfig(ScanName, scan_params, scan_config_overrides,
                            model_name_fmt, model_overrides)

SpecSetup == InitSetup /\ [][NextSetup]_vars

(***************************************************************************)
(* Properties of setup_scan_config                                         *)
(***************************************************************************)
\* the last call was a setup_scan_config that returned
SetupReturned == call.op = "setup_scan_config" /\ ret.kind = "return"

ReturnedManifest == ret.val[1]

ReturnedModelConfig == ret.val[2]

\* the entries of an ordered dict with this name
EntriesNamed(models, name) == {k \in 1 .. Len(models) : models[k].name = name}

\* the indices of the call's grid, and the name generated for index i
GridIndices == 0 .. (NModels(call.scan_params) - 1)

NameOf(i) == Format(call.model_name_fmt, call.name, i)

\* the manifest has one entry per index, and the entry of the i-th name maps
\* every declared parameter to the i-th value of its list
OneEntryPerIndex ==
    /\ Len(ReturnedManifest.models) = NModels(call.scan_params)
    /\ \A i \in GridIndices :
          \E k \in 1 .. Len(ReturnedManifest.models) :
              /\ ReturnedManifest.models[k].name = NameOf(i)
              /\ DOMAIN ReturnedManifest.models[k].params = DOMAIN call.scan_params
              /\ \A q \in DOMAIN call.scan_params :
                    ReturnedManifest.models[k].params[q] = call.scan_params[q][i + 1]

\* C4 as stated: for a grid of p parameters each listing n values and any name
\* template, the returned and persisted manifest has exactly n entries, the
\* entry of the i-th generated name mapping every declared parameter to the
\* i-th value of its list.
C4_ManifestHasNEntries ==
    SetupReturned =>
        /\ files[ScanYml(call.name)] = ReturnedManifest
        /\ OneEntryPerIndex

\* C4 amended: the returned and persisted manifest has exactly one entry per
\* distinct generated name, holding for every declared parameter the value at
\* the last index that generates the name; so it has exactly n entries, the
\* i-th name's entry holding the i-th values, when the template generates a
\* different name for every index (as the default "{scan_name}_{i}" does).
C4_ManifestHasOneEntryPerDistinctName ==
    SetupReturned =>
        LET models == ReturnedManifest.models
        IN  /\ files[ScanYml(call.name)] = ReturnedManifest
            /\ {models[k].name : k \in 1 .. Len(models)}
                   = {NameOf(i) : i \in GridIndices}
            /\ \A k \in 1 .. Len(models) :
                  /\ EntriesNamed(models, models[k].name) = {k}
                  /\ LET last == CHOOSE i \in GridIndices :
                                    /\ NameOf(i) = models[k].name
                                    /\ \A j \in GridIndices :
                                          NameOf(j) = models[k].name => j <= i
                     IN  /\ DOMAIN models[k].params = DOMAIN call.scan_params
                         /\ \A q \in DOMAIN call.scan_params :
                               models[k].params[q] = call.scan_params[q][last + 1]
            /\ (\A i, j \in GridIndices : NameOf(i) = NameOf(j) => i = j)
                   => OneEntryPerIndex

\* a grid of two parameters with the longest lists, under the default template
C4_Witness ==
    /\ SetupReturned
    /\ call.model_name_fmt = DefaultFmt
    /\ DOMAIN call.scan_params = DOMAIN ParamValues
    /\ NModels(call.scan_params) = MaxValues
    /\ Len(files[ScanYml(call.name)].models) = MaxValues
    /\ files[ScanYml(call.name)].models[MaxValues].params[<<"morph", "scale">>]
           = ParamValues[<<"morph", "scale">>][MaxValues]

\* the fit type of the base model after overlaying the call's model_overrides
OverlaidFitType(f, model_overrides) ==
    OverlaidModelConfig(f, model_overrides)[<<"fit", "type">>]

\* the call raised ValueError and left every directory and file as it was
RejectedUntouched ==
    /\ ret' = Raised("ValueError")
    /\ dirs' = dirs
    /\ files' = files

\* C5 as stated: whenever the overlaid base model's fit type is not
\* "standard", setup_scan_config raises ValueError and creates or writes nothing.
C5_RejectsNonStandard ==
    [][( /\ call'.op = "setup_scan_config"
         /\ OverlaidFitType(files, call'.model_overrides) # "standard" )
       => RejectedUntouched]_vars

\* C5 amended: the same for a grid that declares at least one parameter (for an
\* empty grid the call fails before the base model is read, with IndexError,
\* and also creates or writes nothing).
C5_RejectsNonStandardGivenAGrid ==
    [][( /\ call'.op = "setup_scan_config"
         /\ OverlaidFitType(files, call'.model_overrides) # "standard" )
       => IF DOMAIN call'.scan_params # {}
          THEN RejectedUntouched
          ELSE /\ ret' = Raised("IndexError")
               /\ dirs' = dirs
               /\ files' = files]_vars

\* a standard base model made non-standard by the overrides, rejected in a
\* project that has no scans or models area
C5_Witness ==
    /\ call.op = "setup_scan_config"
    /\ files[BaseModelConfig][<<"fit", "type">>] = "standard"
    /\ OverlaidFitType(files, call.model_overrides) = "split"
    /\ DOMAIN call.scan_params # {}
    /\ ret = Raised("ValueError")
    /\ dirs = {Root}
    /\ DOMAIN files = {BaseModelConfig}

\* C6 as stated: on success, for any scan_config_overrides, the derived config's
\* fit section has type "split", holds the split defaults deep-merged with the
\* scan overrides, and holds under "em" the overlaid standard-fit config
\* unchanged, whose type is "standard".
C6_DerivedFitIsSplit ==
    SetupReturned =>
        LET fit == Sub(ReturnedModelConfig, <<"fit">>)
            merged == RecursiveUpdate(SplitDefaults, call.scan_config_overrides)
            overlaid == OverlaidModelConfig(files, call.model_overrides)
        IN  /\ files[ScanBaseModelYml(call.name)] = ReturnedModelConfig
            /\ fit[<<"type">>] = "split"
            /\ \A q \in DOMAIN merged \ {<<"type">>} :
                  q \in DOMAIN fit /\ fit[q] = merged[q]
            /\ Sub(fit, <<"em">>) = Sub(overlaid, <<"fit">>)
            /\ fit[<<"em", "type">>] = "standard"

\* a derived config whose scan overrides changed a split default and whose
\* model overrides changed the wrapped standard fit
C6_Witness ==
    /\ SetupReturned
    /\ call.scan_config_overrides = (<<"split_count">> :> "4")
    /\ ReturnedModelConfig[<<"fit", "split_count">>] = "4"
    /\ ReturnedModelConfig[<<"fit", "em", "n_steps">>] = "50"

(***************************************************************************)
(* run_scan (kpsn/fitting/scans.py).  One step per statement of the loop   *)
(* body; fit is a call that is entered and later returns or raises.        *)
(***************************************************************************)
MaxModels == 2      \* the most models a manifest declares

Checkpoint(model_name) == Model(model_name) \o <<Lit("checkpoint")>>

\* what the file system holds at path and below it
DirOf(d, f, path) ==
    [dirs |-> {q \in d : IsPrefix(path, q)},
     files |-> [q \in {r \in DOMAIN f : IsPrefix(path, r)} |-> f[q]]]

\* Path.exists()
Exists(d, f, path) == path \in d \/ path \in DOMAIN f

\* a removal that deletes the config file of the directory and nothing else
RmtreeConfigOnly(d, f, path) ==
    [dirs |-> d,
     files |-> [q \in {r \in DOMAIN f : r # path \o <<Lit("model.yml")>>}
                   |-> f[q]]]

\* shutil.rmtree(path) of a directory
Rmtree(d, f, path) ==
    [dirs |-> {q \in d : ~IsPrefix(path, q)},
     files |-> [q \in {r \in DOMAIN f : ~IsPrefix(path, r)} |-> f[q]]]

\* the manifest entries the other way round
ModelsReversed(cfg) ==
    [k \in 1 .. Len(cfg.models) |-> cfg.models[Len(cfg.models) + 1 - k]]

\* scan_config["models"].items()
ModelsInOrder(cfg) == cfg.models

\* the loop moves to its next item, or run_scan returns
NextModel(n, i) ==
    IF i < n THEN [pc |-> "restart", idx |-> i + 1, ret |-> [kind |-> "pending"]]
    ELSE [pc |-> "done", idx |-> i, ret |-> Returned("None")]

\* a loop that drops the error and goes on with the next model
Swallow(n, i, err) == NextModel(n, i)

\* an exception in the loop body: nothing catches it, run_scan raises it
Propagate(n, i, err) == [pc |-> "raised", idx |-> i, ret |-> err]

Event(ev, model_name) == [ev |-> ev, model |-> model_name]

\* what a model directory may hold before the scan runs
PriorStates == {"absent", "dir", "file"}

PriorDirs(model_name, state) ==
    IF state = "dir"
    THEN {Model(model_name), Model(model_name) \o <<Lit("plots")>>}
    ELSE {}

PriorFiles(model_name, state) ==
    IF state = "dir"
    THEN WriteFile(WriteFile(WriteFile(<<>>, ModelConfig(model_name), OtherDoc),
                             Checkpoint(model_name), Artifact("old")),
                   Model(model_name) \o <<Lit("plots"), Lit("fig")>>,
                   Artifact("figure"))
    ELSE IF state = "file"
    THEN WriteFile(<<>>, Model(model_name), Artifact("notes"))
    ELSE <<>>

\* the files of f together with those of g
Merge(f, g) ==
    [q \in DOMAIN f \cup DOMAIN g |-> IF q \in DOMAIN g THEN g[q] ELSE f[q]]

RECURSIVE WithPriors(_, _, _, _)
WithPriors(f, models, prior, n) ==
    IF n = 0 THEN f
    ELSE Merge(WithPriors(f, models, prior, n - 1),
               PriorFiles(models[n].name, prior[n]))

\* the parameters a scan is laid out over
ScanGrids == {{<<"fit", "n_steps">>}, {<<"morph", "scale">>, <<"fit", "n_steps">>}}

\* the parameter the k-th model of a manifest edited by hand keeps
KeptKey(keys, k) ==
    IF <<"morph", "scale">> \in keys /\ k % 2 = 1 THEN <<"morph", "scale">>
    ELSE <<"fit", "n_steps">>

\* scan.yml edited by hand after setup: each model keeps one of its overrides
OwnKeyEach(cfg) ==
    [cfg EXCEPT !.models =
        [k \in 1 .. Len(cfg.models) |->
            [cfg.models[k] EXCEPT !.params =
                LET own == KeptKey(DOMAIN cfg.models[k].params, k)
                IN  (own :> cfg.models[k].params[own])]]]

\* what the object passed to recursive_update as its first argument holds
\* after the call: recursive_update either builds a new mapping or updates
\* its argument and returns it (kpsn/config.py is not among the source
\* files)
UpdatedArgument(in_place, d, merged) == IF in_place THEN merged ELSE d

Bystander == Lit("other")           \* a model no manifest names

\* a project in which setup_scan_config has laid out a scan of 1..MaxModels
\* models; each of them may already have a directory, or a stray file in its
\* place
InitRun ==
    /\ \E n \in 1 .. MaxModels :
        \E prior \in [1 .. n -> PriorStates], keys \in ScanGrids,
           edited \in BOOLEAN :
          LET grid == [p \in keys |-> SubSeq(ParamValues[p], 1, n)]
              laid == SetupScanOutcome(
                          EnsureDirsOf({Root}),
                          WriteFile(<<>>, BaseModelConfig, BaseDoc("standard")),
                          ScanName, grid, (<<"split_count">> :> "4"),
                          DefaultFmt, EmptyDoc)
              manifest == IF edited
                          THEN OwnKeyEach(laid.files[ScanYml(ScanName)])
                          ELSE laid.files[ScanYml(ScanName)]
              models == manifest.models
          IN  /\ dirs = laid.dirs \cup PriorDirs(Bystander, "dir")
                          \cup UNION {PriorDirs(models[k].name, prior[k]) :
                                          k \in 1 .. n}
              /\ files = WithPriors(Merge(WriteFile(laid.files,
                                                    ScanYml(ScanName), manifest),
                                          PriorFiles(Bystander, "dir")),
                                    models, prior, n)
    /\ call = [op |-> "setup_scan_config"]
    /\ ret = Returned("None")
    /\ NewTrace
    /\ NoRun
    /\ NoStyle

\* the item of the loop at hand
Current == ModelsInOrder(scan_cfg)[idx]

NModelsLoaded == Len(ModelsInOrder(scan_cfg))

\* the loop body raised err at `step` of the model at hand
Fail(step, err) ==
    LET out == Propagate(NModelsLoaded, idx, err)
    IN  /\ pc' = out.pc
        /\ idx' = out.idx
        /\ ret' = out.ret
        /\ failedAt' = [at |-> idx, model |-> Current.name, step |-> step,
                        err |-> err]

\* the loop body is through with the model at hand
Advance ==
    LET out == NextModel(NModelsLoaded, idx)
    IN  /\ pc' = out.pc
        /\ idx' = out.idx
        /\ ret' = out.ret

\* run_scan is called: it loads scan.yml and the scan's base_model.yml
RunScan(scan_name, force) ==
    /\ pc = "idle"
    /\ call' = [op |-> "run_scan", scan_name |-> scan_name,
                force_restart |-> force]
    /\ force_restart' = force
    /\ atCall' = [dirs |-> dirs, files |-> files]
    /\ IF ScanYml(scan_name) \in DOMAIN files
          /\ ScanBaseModelYml(scan_name) \in DOMAIN files
       THEN /\ scan_cfg' = files[ScanYml(scan_name)]
            /\ model_cfg' = files[ScanBaseModelYml(scan_name)]
            /\ IF Len(ModelsInOrder(scan_cfg')) = 0
               THEN pc' = "done" /\ idx' = 0 /\ ret' = Returned("None")
               ELSE pc' = "restart" /\ idx' = 1
                        /\ ret' = [kind |-> "pending"]
            /\ UNCHANGED failedAt
       ELSE /\ pc' = "raised" /\ idx' = 0
            /\ ret' = Raised("FileNotFoundError")
            /\ failedAt' = [at |-> 0, err |-> ret']
            /\ UNCHANGED <<scan_cfg, model_cfg>>
    /\ UNCHANGED <<traceVars, plotting, fsVars, log, fitLeft>>

\* if force_restart: if model_dir.exists(): shutil.rmtree(model_dir)
RunRestart ==
    /\ pc = "restart"
    /\ LET model_dir == Model(Current.name)
       IN  IF force_restart /\ Exists(dirs, files, model_dir)
           THEN IF model_dir \in dirs
                THEN /\ dirs' = Rmtree(dirs, files, model_dir).dirs
                     /\ files' = Rmtree(dirs, files, model_dir).files
                     /\ log' = Append(log, Event("remove", Current.name))
                     /\ pc' = "create"
                     /\ UNCHANGED <<idx, ret, failedAt>>
                ELSE /\ Fail("rmtree", Raised("NotADirectoryError"))
                     /\ UNCHANGED <<fsVars, log>>
           ELSE /\ pc' = "create"
                /\ UNCHANGED <<fsVars, log, idx, ret, failedAt>>
    /\ UNCHANGED <<traceVars, plotting, call, scan_cfg, model_cfg, force_restart,
                   fitLeft, atCall>>

\* create_model(project, model_name, config=model_config,
\*              config_overrides=scan_params)
RunCreate(in_place) ==
    /\ pc = "create"
    /\ LET out == CreateModelOutcome(dirs, files, AProject, Current.name,
                                     ADict(model_cfg), Current.params)
       IN  IF out.ret.kind = "raise"
           THEN /\ Fail("create", out.ret)
                /\ dirs' = out.dirs
                /\ files' = out.files
                /\ UNCHANGED <<log, model_cfg>>
           ELSE /\ dirs' = out.dirs
                /\ files' = out.files
                /\ model_cfg' = UpdatedArgument(in_place, model_cfg, out.ret.val[2])
                /\ log' = Append(log, Event("create", Current.name))
                /\ pc' = "fit"
                /\ UNCHANGED <<idx, ret, failedAt>>
    /\ UNCHANGED <<traceVars, plotting, call, scan_cfg, force_restart,
                   fitLeft, atCall>>

\* fit(model_dir, dataset, ...) is entered
RunFitCall ==
    /\ pc = "fit"
    /\ pc' = "fitting"
    /\ log' = Append(log, Event("fit_call", Current.name))
    /\ UNCHANGED <<traceVars, plotting, fsVars, call, ret, idx, scan_cfg, model_cfg,
                   force_restart, fitLeft, failedAt, atCall>>

\* fit returns, having written its checkpoint into the model directory, or
\* raises, with or without a checkpoint written (kpsn/fitting/methods.py is
\* not among the source files)
RunFitReturn(ok, wrote) ==
    /\ pc = "fitting"
    /\ files' = IF wrote
                THEN WriteFile(files, Checkpoint(Current.name), Artifact("fit"))
                ELSE files
    /\ IF ok
       THEN /\ wrote
            /\ Advance
            /\ log' = Append(log, Event("fit_return", Current.name))
            /\ fitLeft' = Merge(fitLeft,
                                WriteFile(<<>>, Current.name,
                                          DirOf(dirs, files', Model(Current.name))))
            /\ UNCHANGED failedAt
       ELSE /\ Fail("fit", Raised("FitError"))
            /\ UNCHANGED <<log, fitLeft>>
    /\ UNCHANGED <<traceVars, plotting, dirs, call, scan_cfg, model_cfg, force_restart,
                   atCall>>

NextRun ==
    \/ \E force \in BOOLEAN : RunScan(ScanName, force)
    \/ RunRestart
    \/ \E in_place \in BOOLEAN : RunCreate(in_place)
    \/ RunFitCall
    \/ \E ok \in BOOLEAN, wrote \in BOOLEAN : RunFitReturn(ok, wrote)

SpecRun == InitRun /\ [][NextRun]_vars

(***************************************************************************)
(* Properties of run_scan                                                  *)
(***************************************************************************)
\* m1..mn: the manifest as scan.yml holds it
ManifestModels == files[ScanYml(ScanName)].models

ManifestNames == [k \in 1 .. Len(ManifestModels) |-> ManifestModels[k].name]

\* the position of a model in the manifest
Position(model_name) ==
    CHOOSE k \in 1 .. Len(ManifestNames) : ManifestNames[k] = model_name

RunScanCalled == call.op = "run_scan"

IsWork(e) == e.ev # "remove"

WorkKinds == <<"create", "fit_call", "fit_return">>

\* create, fit entered, fit returned: for m1, then for m2, ...
InOrderWork ==
    [k \in 1 .. 3 * Len(ManifestNames) |->
        Event(WorkKinds[((k - 1) % 3) + 1], ManifestNames[((k - 1) \div 3) + 1])]

\* the models whose fit has been entered and has neither returned nor raised
BeingFitted ==
    {log[k].model : k \in {j \in 1 .. Len(log) :
        /\ log[j].ev = "fit_call"
        /\ pc # "raised"
        /\ \A l \in j + 1 .. Len(log) :
              ~(log[l].ev = "fit_return" /\ log[l].model = log[j].model)}}

\* C9: run_scan creates and fits the manifest models one after the other in
\* manifest order: what it has done so far is always an initial part of
\* create(m1), fit(m1), create(m2), fit(m2), ..., everything done for a model
\* (its removal included) comes after the fit of the model before it has
\* returned, at most one model is being fitted at any time, and a run that
\* returns has created every model exactly once and fitted it exactly once.
C9_SequentialInManifestOrder ==
    RunScanCalled =>
        /\ IsPrefix(SelectSeq(log, IsWork), InOrderWork)
        /\ \A k \in 1 .. Len(log), l \in 1 .. Len(log) :
              k < l => Position(log[k].model) <= Position(log[l].model)
        /\ \A k \in 1 .. Len(log) :
              log[k].ev = "remove" =>
                  \A l \in 1 .. k - 1 : log[l].model # log[k].model
        /\ Cardinality(BeingFitted) <= 1
        /\ (pc = "fitting") = (BeingFitted # {})
        /\ (pc = "done") => SelectSeq(log, IsWork) = InOrderWork

C9_Witness ==
    /\ RunScanCalled
    /\ pc = "done"
    /\ Len(ManifestNames) = 2
    /\ force_restart
    /\ \E k \in 1 .. Len(log) :
          log[k] = Event("remove", ManifestNames[2])

\* C10: when the removal, the creation or the fit of model mk raises,
\* run_scan raises that very error and stops: nothing has been done for a
\* model after mk, whose directories are as they were when run_scan was
\* called, and the directory of every model before mk holds what it held
\* when its own fit returned.
C10_FailureHaltsScan ==
    (RunScanCalled /\ failedAt.at # 0) =>
        /\ pc = "raised"
        /\ ret = failedAt.err
        /\ ret.kind = "raise"
        /\ \A k \in 1 .. Len(log) : Position(log[k].model) <= Position(failedAt.model)
        /\ \A j \in 1 .. Len(ManifestNames) :
              /\ j > Position(failedAt.model) =>
                    DirOf(dirs, files, Model(ManifestNames[j]))
                        = DirOf(atCall.dirs, atCall.files,
                                Model(ManifestNames[j]))
              /\ j < Position(failedAt.model) =>
                    /\ ManifestNames[j] \in DOMAIN fitLeft
                    /\ DirOf(dirs, files, Model(ManifestNames[j]))
                          = fitLeft[ManifestNames[j]]

C10_Witness ==
    /\ RunScanCalled
    /\ pc = "raised"
    /\ failedAt.at = 2
    /\ failedAt.step = "fit"
    /\ ret = Raised("FitError")
    /\ ManifestNames[1] \in DOMAIN fitLeft
    /\ Len(log) = 5

\* create_model has returned for the model at hand and its fit has not
FitInvoked == pc \in {"fit", "fitting"}

\* the paths at and below the directory of the model
Below(paths, model_name) == {q \in paths : IsPrefix(Model(model_name), q)}

\* C11: with force_restart, a model directory that existed is removed before
\* the model is created, and when fit is invoked the directory holds the
\* freshly written model.yml (the overrides of the model merged onto the
\* configuration run_scan holds) and nothing else; without force_restart nothing
\* is removed at any time, and when fit is invoked every file the directory
\* held at the call, model.yml apart, is as it was; the directory of a model
\* the manifest does not name is never touched.
C11_PreexistingDirectories ==
    RunScanCalled =>
        /\ (force_restart /\ FitInvoked) =>
              /\ Below(dirs, Current.name) = {Model(Current.name)}
              /\ Below(DOMAIN files, Current.name) = {ModelConfig(Current.name)}
              /\ files[ModelConfig(Current.name)]
                    = RecursiveUpdate(model_cfg, Deepen(Current.params))
              /\ Model(Current.name) \in atCall.dirs =>
                    \E k \in 1 .. Len(log), l \in 1 .. Len(log) :
                        /\ k < l
                        /\ log[k] = Event("remove", Current.name)
                        /\ log[l] = Event("create", Current.name)
        /\ ~force_restart =>
              /\ \A k \in 1 .. Len(log) : log[k].ev # "remove"
              /\ atCall.dirs \subseteq dirs
              /\ DOMAIN atCall.files \subseteq DOMAIN files
              /\ FitInvoked =>
                    \A q \in Below(DOMAIN atCall.files, Current.name) :
                        q # ModelConfig(Current.name) => files[q] = atCall.files[q]
        /\ DirOf(dirs, files, Model(Bystander))
              = DirOf(atCall.dirs, atCall.files, Model(Bystander))

\* fit is invoked for a model whose old directory a forced restart removed
C11_Witness ==
    /\ RunScanCalled
    /\ force_restart
    /\ pc = "fitting"
    /\ idx = 2
    /\ Checkpoint(Current.name) \in DOMAIN atCall.files
    /\ Checkpoint(Current.name) \notin DOMAIN files
    /\ Model(Current.name) \o <<Lit("plots")>> \in atCall.dirs

(***************************************************************************)
(* Scan datasets (kpsn/fitting/scans.py, 136-296 and the callers of        *)
(* load_and_prepare_scan_dataset).  A Python value is a record tagged with *)
(* its type; an argument binds to a parameter by position or by keyword as *)
(* the call site writes it.                                                *)
(***************************************************************************)
PyNone == [t |-> "none"]

PyStr(name) == [t |-> "str", v |-> name]

PyBool(b) == [t |-> "bool", v |-> b]

PyTuple(items) == [t |-> "tuple", items |-> items]

\* load_dataset(cfg["dataset"], allow_subsample=...) (kpsn/io/loaders.py)
LoadDataset(dataset_cfg, allow_subsample) ==
    [t |-> "Dataset", name |-> dataset_cfg, subsample |-> allow_subsample,
     versions |-> "raw"]

\* prepare_dataset(dataset, config, all_versions=...) (kpsn/fitting/methods.py):
\* the prepared dataset and the data that inverts the alignment
PrepareDataset(dataset, config, all_versions) ==
    <<[dataset EXCEPT !.versions = IF all_versions THEN "all" ELSE "features"],
      [t |-> "align_inv", dataset |-> dataset.name]>>

\* split_body_inv(dataset, split_all, split_type, split_count)
\* (kpsn/io/utils.py): the body and the session inversion maps
SplitBodyInv(dataset, split_all, split_type, split_count) ==
    <<[t |-> "body_inv", dataset |-> dataset.name,
       split |-> <<split_all, split_type, split_count>>],
      [t |-> "session_inv", dataset |-> dataset.name,
       split |-> <<split_all, split_type, split_count>>]>>

\* _resolve_model_config(project_or_config, scan_name, model_name)
ResolveModelConfig(f, project_or_config, scan_name, model_name) ==
    IF project_or_config.kind = "dict"
    THEN Returned(project_or_config)
    ELSE IF project_or_config.kind = "path"
            /\ (scan_name # PyNone \/ model_name # PyNone)
    THEN Raised("AttributeError")       \* a path has no scan, no model_config
    ELSE IF project_or_config.kind = "Project"
            /\ scan_name = PyNone /\ model_name = PyNone
    THEN Raised("TypeError")            \* Path(project) of a Project
    ELSE LET config_path ==
                 IF scan_name # PyNone THEN ScanBaseModelYml(scan_name.v)
                 ELSE IF model_name # PyNone THEN ModelConfig(model_name.v)
                 ELSE project_or_config.path \o <<Lit("model.yml")>>
         IN  IF config_path \in DOMAIN f THEN Returned(ADict(f[config_path]))
             ELSE Raised("FileNotFoundError")

\* load_scan_dataset(project_or_config, scan_name, model_name, allow_subsample)
LoadScanDataset(f, project_or_config, scan_name, model_name, allow_subsample) ==
    LET cfg == ResolveModelConfig(f, project_or_config, scan_name, model_name)
    IN  IF cfg.kind = "raise" THEN cfg
        ELSE Returned(PyTuple(<<LoadDataset(cfg.val.doc[<<"dataset">>],
                                            allow_subsample),
                                cfg.val>>))

\* prepare_scan_dataset with its parameters bound as the caller passed them:
\* what it returns or raises, and the call as it saw it
PrepareScanDataset(f, dataset, project_or_config, scan_name, model_name, all_versions, return_session_inv) ==
    LET seen == [ev |-> "prepare_scan_dataset", scan_name |-> scan_name,
                 model_name |-> model_name, all_versions |-> all_versions,
                 return_session_inv |-> return_session_inv]
        cfg == ResolveModelConfig(f, project_or_config, scan_name, model_name)
    IN  IF cfg.kind = "raise" THEN [ret |-> cfg, seen |-> seen]
        ELSE
        LET config == cfg.val.doc
            prepared == PrepareDataset(dataset, config, all_versions)
        IN  IF ~({<<"fit", "split_all">>, <<"fit", "split_type">>,
                  <<"fit", "split_count">>} \subseteq DOMAIN config)
            THEN [ret |-> Raised("KeyError"), seen |-> seen]
            ELSE
            LET inv == SplitBodyInv(dataset, config[<<"fit", "split_all">>],
                                    config[<<"fit", "split_type">>],
                                    config[<<"fit", "split_count">>])
                split_meta == IF return_session_inv
                              THEN PyTuple(<<inv[1], inv[2]>>)
                              ELSE inv[1]
            IN  [ret |-> Returned(PyTuple(<<prepared[1], split_meta,
                                            prepared[2]>>)),
                 seen |-> seen]

\* load_and_prepare_scan_dataset: load_scan_dataset, then
\* prepare_scan_dataset(dataset, cfg, all_versions, return_session_inv) with
\* four positional arguments, whose result gets (cfg,) appended
LoadAndPrepareScanDataset(f, project, scan_name, model_name, all_versions, return_session_inv, allow_subsample) ==
    LET loaded == LoadScanDataset(f, project, scan_name, model_name,
                                  allow_subsample)
    IN  IF loaded.kind = "raise" THEN [ret |-> loaded, seen |-> <<>>]
        ELSE
        LET dataset == loaded.val.items[1]
            cfg == loaded.val.items[2]
            prep == PrepareScanDataset(f, dataset, cfg, PyBool(all_versions),
                                       PyBool(return_session_inv), FALSE, FALSE)
        IN  IF prep.ret.kind = "raise"
            THEN [ret |-> prep.ret, seen |-> <<prep.seen>>]
            ELSE [ret |-> Returned(PyTuple(prep.ret.val.items \o <<cfg>>)),
                  seen |-> <<prep.seen>>]

\* a, b, c = value: the names bound, or the ValueError of a tuple that has
\* not n items
Unpack(value, n) ==
    IF Len(value.items) # n THEN Raised("ValueError")
    ELSE Returned(value.items)

\* the functions of the module that unpack the result into three names
Callers ==
    {"model_withinbody_reconst_errs", "model_withinbody_induced_errs",
     "withinbody_reconst_errs", "_load_dataset_or_calc_metadata",
     "base_jsds_to_reference", "model_jsds_to_reference"}

\* the call of load_and_prepare_scan_dataset each of them makes when it is
\* given no dataset, and the unpacking of its result
CallerOutcome(f, caller, model_name) ==
    LET from_cfg == caller \in {"model_withinbody_reconst_errs",
                                "model_withinbody_induced_errs"}
        wants_pair == caller = "_load_dataset_or_calc_metadata"
    IN  IF from_cfg /\ ModelConfig(model_name) \notin DOMAIN f
        THEN [ret |-> Raised("FileNotFoundError"), seen |-> <<>>]
        ELSE
        LET out == IF from_cfg
                   THEN LoadAndPrepareScanDataset(
                            f, ADict(f[ModelConfig(model_name)]), PyNone,
                            PyNone, FALSE, FALSE, TRUE)
                   ELSE LoadAndPrepareScanDataset(
                            f, AProject, PyNone, PyStr(model_name), FALSE,
                            wants_pair, TRUE)
        IN  IF out.ret.kind = "raise" THEN out
            ELSE
            LET bound == Unpack(out.ret.val, 3)
            IN  IF bound.kind = "raise" THEN [ret |-> bound, seen |-> out.seen]
                ELSE IF wants_pair /\ bound.val[2].t # "tuple"
                THEN [ret |-> Raised("ValueError"), seen |-> out.seen]
                ELSE [ret |-> bound, seen |-> out.seen]

\* the scan's models as run_scan creates them
RECURSIVE CreatedUpTo(_, _, _, _)
CreatedUpTo(d, f, models, n) ==
    IF n = 0 THEN [dirs |-> d, files |-> f]
    ELSE LET before == CreatedUpTo(d, f, models, n - 1)
             out == CreateModelOutcome(before.dirs, before.files, AProject,
                                       models[n].name,
                                       ADict(f[ScanBaseModelYml(ScanName)]),
                                       models[n].params)
         IN  [dirs |-> out.dirs,
              files |-> WriteFile(out.files, Checkpoint(models[n].name),
                                  Artifact("fit"))]

DatasetOverrideSets == {EmptyDoc, (<<"dataset">> :> "rats")}

SplitOverrideSets ==
    {(<<"split_count">> :> "4"), (<<"split_all">> :> "true")}

\* a project whose scan has been set up and run
InitPrepare ==
    /\ \E model_overrides \in DatasetOverrideSets,
          scan_config_overrides \in SplitOverrideSets :
          LET grid == (<<"fit", "n_steps">> :>
                           SubSeq(ParamValues[<<"fit", "n_steps">>], 1, 2))
              laid == SetupScanOutcome(
                          EnsureDirsOf({Root}),
                          WriteFile(<<>>, BaseModelConfig, BaseDoc("standard")),
                          ScanName, grid, scan_config_overrides, DefaultFmt,
                          model_overrides)
              made == CreatedUpTo(laid.dirs, laid.files,
                                  laid.files[ScanYml(ScanName)].models, 2)
          IN  dirs = made.dirs /\ files = made.files
    /\ call = [op |-> "run_scan"]
    /\ ret = Returned("None")
    /\ NewTrace
    /\ NoRun
    /\ NoStyle

\* the configs load_and_prepare_scan_dataset may be handed
ProjectsOrConfigs ==
    {AProject, APath(Model(Format(DefaultFmt, ScanName, 0))),
     ADict(BaseDoc("standard"))}

LoadAndPrepare(project, scan_name, model_name, all_versions, return_session_inv, allow_subsample) ==
    LET out == LoadAndPrepareScanDataset(files, project, scan_name, model_name,
                                         all_versions, return_session_inv,
                                         allow_subsample)
    IN  /\ call' = [op |-> "load_and_prepare_scan_dataset",
                    project |-> project, scan_name |-> scan_name,
                    model_name |-> model_name, all_versions |-> all_versions,
                    return_session_inv |-> return_session_inv,
                    allow_subsample |-> allow_subsample]
        /\ ret' = out.ret
        /\ log' = out.seen
        /\ UNCHANGED <<traceVars, plotting, fsVars, pc, idx, scan_cfg, model_cfg,
                       force_restart, fitLeft, failedAt, atCall>>

CallerLoads(caller, model_name) ==
    LET out == CallerOutcome(files, caller, model_name)
    IN  /\ call' = [op |-> caller, model_name |-> model_name]
        /\ ret' = out.ret
        /\ log' = out.seen
        /\ UNCHANGED <<traceVars, plotting, fsVars, pc, idx, scan_cfg, model_cfg,
                       force_restart, fitLeft, failedAt, atCall>>

NextPrepare ==
    \/ \E project \in ProjectsOrConfigs,
          scan_name \in {PyNone, PyStr(ScanName)},
          model_name \in {PyNone, PyStr(Format(DefaultFmt, ScanName, 1))},
          all_versions \in BOOLEAN, return_session_inv \in BOOLEAN,
          allow_subsample \in BOOLEAN :
            LoadAndPrepare(project, scan_name, model_name, all_versions,
                           return_session_inv, allow_subsample)
    \/ \E caller \in Callers :
          CallerLoads(caller, Format(DefaultFmt, ScanName, 0))

SpecPrepare == InitPrepare /\ [][NextPrepare]_vars

(***************************************************************************)
(* Properties of load_and_prepare_scan_dataset                             *)
(***************************************************************************)
LoadAndPrepareReturned ==
    call.op = "load_and_prepare_scan_dataset" /\ ret.kind = "return"

\* C12: the all_versions and return_session_inv given to
\* load_and_prepare_scan_dataset are the all_versions and return_session_inv
\* prepare_scan_dataset runs with, and the split metadata returned is the
\* pair of inversion maps when return_session_inv is set and the body
\* inversion map alone when it is not.
C12_FlagsForwarded ==
    LoadAndPrepareReturned =>
        /\ log[1].all_versions = call.all_versions
        /\ log[1].return_session_inv = call.return_session_inv
        /\ call.return_session_inv =>
              /\ ret.val.items[2].t = "tuple"
              /\ ret.val.items[2].items[1].t = "body_inv"
              /\ ret.val.items[2].items[2].t = "session_inv"
        /\ ~call.return_session_inv => ret.val.items[2].t = "body_inv"

\* C13: load_and_prepare_scan_dataset returns the three values (prepared
\* dataset, split metadata, config), and each caller that unpacks the result
\* into three names binds them without raising.
C13_ReturnsThreeValues ==
    /\ LoadAndPrepareReturned =>
          /\ Len(ret.val.items) = 3
          /\ ret.val.items[1].t = "Dataset"
          /\ ret.val.items[1].versions # "raw"
          /\ ret.val.items[2].t \in {"body_inv", "tuple"}
          /\ ret.val.items[3].kind = "dict"
    /\ call.op \in Callers =>
          /\ ret.kind = "return"
          /\ ret.val[1].t = "Dataset"
          /\ ret.val[2].t \in {"body_inv", "tuple"}

(***************************************************************************)
(* jsds_to_reference (kpsn/fitting/scans.py, 433-450 and 588-631).  A JSD  *)
(* is an integer; the values come from ball_cloud_js, which is not among   *)
(* the source files, and are inputs of the call.                           *)
(***************************************************************************)
JsdValues == {-1, 0, 1}

\* jsds[b][s] < 0
IsNegative(v) == v < 0

\* _body_inv.items(): bodies with their sessions, in the order of the dict
BodyInvMaps ==
    { <<[body |-> "b1", sessions |-> <<"s1">>],
        [body |-> "b2", sessions |-> <<"s2">>]>>,
      <<[body |-> "b1", sessions |-> <<"s1", "s2">>]>> }

ABodyInv(map) == [t |-> "body_inv", map |-> map]

ASessionInv == [t |-> "session_inv"]

ADataset == [t |-> "Dataset", name |-> "mice", subsample |-> TRUE,
             versions |-> "features"]

\* [(b, s) for b, l in _body_inv.items() for s in l]
RECURSIVE PairsOf(_)
PairsOf(map) ==
    IF map = <<>> THEN <<>>
    ELSE [k \in 1 .. Len(Head(map).sessions) |->
             [body |-> Head(map).body, session |-> Head(map).sessions[k]]]
         \o PairsOf(Tail(map))

\* _resolve_scan_model_list(project, scan_name)
ResolveScanModelList(f, scan_name) ==
    IF scan_name.t = "str"
    THEN IF ScanYml(scan_name.v) \in DOMAIN f
         THEN Returned([k \in 1 .. Len(f[ScanYml(scan_name.v)].models) |->
                           f[ScanYml(scan_name.v)].models[k].name])
         ELSE Raised("FileNotFoundError")
    ELSE Returned(scan_name.items)

\* dataset, (_body_inv, _session_inv), _ = load_and_prepare_scan_dataset(...)
\* followed by the return statement, out being what the call gave
MetadataOf(out) ==
    IF out.kind = "raise" THEN out
    ELSE Returned(<<out.val[1], out.val[2].items[1], out.val[2].items[2]>>)

\* _load_dataset_or_calc_metadata(project, model_name, dataset, split_meta)
LoadDatasetOrCalcMetadata(f, model_name, dataset, split_meta) ==
    IF dataset = PyNone
    THEN MetadataOf(CallerOutcome(f, "_load_dataset_or_calc_metadata",
                                  model_name).ret)
    ELSE IF split_meta = PyNone THEN Raised("TypeError")
    ELSE IF Len(split_meta.items) # 2 THEN Raised("ValueError")
    ELSE Returned(<<dataset, split_meta.items[1], split_meta.items[2]>>)

\* [m for m, jsds in model_jsds.items() if jsds[b][s] < 0], over the first n
\* models
RECURSIVE NegModels(_, _, _, _)
NegModels(models, model_jsds, pair, n) ==
    IF n = 0 THEN <<>>
    ELSE NegModels(models, model_jsds, pair, n - 1)
         \o (IF IsNegative(model_jsds[n][pair]) THEN <<models[n]>> ELSE <<>>)

\* the warnings of the loop over the first n (body, session) pairs
RECURSIVE WarningsUpTo(_, _, _, _, _)
WarningsUpTo(models, pairs, model_jsds, base_jsds, n) ==
    IF n = 0 THEN <<>>
    ELSE LET neg_models ==
                 NegModels(models, model_jsds, n, Len(models))
                 \o (IF IsNegative(base_jsds[n]) THEN <<Lit("unmorphed")>>
                     ELSE <<>>)
         IN  WarningsUpTo(models, pairs, model_jsds, base_jsds, n - 1)
             \o (IF Len(neg_models) # 0
                 THEN <<[ev |-> "warning", body |-> pairs[n].body,
                         session |-> pairs[n].session, models |-> neg_models]>>
                 ELSE <<>>)

PyList(items) == [t |-> "list", items |-> items]

\* the dicts of dicts model_jsds_to_reference and base_jsds_to_reference
\* return, holding the given values
JsdsOf(pairs, vals) ==
    [p \in 1 .. Len(pairs) |->
        [body |-> pairs[p].body, session |-> pairs[p].session, jsd |-> vals[p]]]

\* jsds_to_reference from the call of model_jsds_to_reference on, meta being
\* what _load_dataset_or_calc_metadata gave for the models
JsdsWithMetadata(f, models, meta, model_vals, base_vals) ==
    IF meta.kind = "raise" THEN [ret |-> meta, log |-> <<>>]
    ELSE IF \E k \in 1 .. Len(models) : ModelConfig(models[k]) \notin DOMAIN f
    THEN [ret |-> Raised("FileNotFoundError"), log |-> <<>>]
    ELSE
    LET pairs == PairsOf(meta.val[2].map)
        model_jsds == [k \in 1 .. Len(models) |->
                          [name |-> models[k],
                           jsds |-> JsdsOf(pairs, model_vals[k])]]
        base_jsds == JsdsOf(pairs, base_vals)
    IN  [ret |-> Returned(<<model_jsds, base_jsds, meta.val[1]>>),
         log |-> WarningsUpTo(models, pairs, model_vals, base_vals,
                              Len(pairs))]

\* jsds_to_reference once the list of models is resolved
JsdsOfModels(f, models, dataset, split_meta, model_vals, base_vals) ==
    IF models.kind = "raise" THEN [ret |-> models, log |-> <<>>]
    ELSE JsdsWithMetadata(f, models.val,
                          LoadDatasetOrCalcMetadata(f, models.val[1], dataset,
                                                    split_meta),
                          model_vals, base_vals)

\* jsds_to_reference(project, scan_name, dataset, split_meta), the JSDs of
\* the models and of the unmorphed data being model_vals and base_vals: what
\* it returns or raises, and the warnings it logs
JsdsToReferenceOutcome(f, scan_name, dataset, split_meta, model_vals, base_vals) ==
    JsdsOfModels(f, ResolveScanModelList(f, scan_name), dataset, split_meta,
                 model_vals, base_vals)

JsdsToReference(scan_name, dataset, split_meta, model_vals, base_vals) ==
    LET out == JsdsToReferenceOutcome(files, scan_name, dataset, split_meta,
                                      model_vals, base_vals)
    IN  /\ pc = "idle"
        /\ pc' = IF out.ret.kind = "raise" THEN "raised" ELSE "done"
        /\ call' = [op |-> "jsds_to_reference", scan_name |-> scan_name,
                    dataset |-> dataset, split_meta |-> split_meta,
                    model_vals |-> model_vals, base_vals |-> base_vals]
        /\ ret' = out.ret
        /\ log' = out.log
        /\ UNCHANGED <<traceVars, plotting, fsVars, idx, scan_cfg, model_cfg,
                       force_restart, fitLeft, failedAt, atCall>>

\* the scan by its name, or an explicit list of its models
ScanNames ==
    {PyStr(ScanName),
     PyList(<<Format(DefaultFmt, ScanName, 1)>>)}

ModelsNamed(scan_name) ==
    IF scan_name.t = "str" THEN 2 ELSE Len(scan_name.items)

NoJsds == [k \in 1 .. 2 |-> [p \in 1 .. 2 |-> 0]]

NextJsd ==
    \/ \E scan_name \in ScanNames, map \in BodyInvMaps :
        \E model_vals \in [1 .. ModelsNamed(scan_name) ->
                               [1 .. 2 -> JsdValues]],
           base_vals \in [1 .. 2 -> JsdValues] :
            JsdsToReference(scan_name, ADataset,
                            PyTuple(<<ABodyInv(map), ASessionInv>>),
                            model_vals, base_vals)
    \/ \E scan_name \in ScanNames, dataset \in {PyNone, ADataset} :
            JsdsToReference(scan_name, dataset, PyNone, NoJsds, NoJsds[1])

SpecJsd == InitPrepare /\ [][NextJsd]_vars

(***************************************************************************)
(* Properties of jsds_to_reference                                         *)
(***************************************************************************)
\* the last call was a jsds_to_reference that got its dataset and its body
\* inversion map
JsdsComputed ==
    /\ call.op = "jsds_to_reference"
    /\ call.dataset # PyNone
    /\ call.split_meta # PyNone

CalledBodyInv == call.split_meta.items[1].map

CalledModels == ResolveScanModelList(files, call.scan_name).val

\* the warnings logged for a (body, session) pair
WarningsFor(pair) ==
    {k \in 1 .. Len(log) :
        log[k].body = pair.body /\ log[k].session = pair.session}

\* the call returned the model JSDs, the baseline JSDs and the dataset
ReturnedJsds ==
    /\ ret.kind = "return"
    /\ ret.val[3].t = "Dataset"
    /\ \A k \in 1 .. Len(CalledModels), p \in 1 .. 2 :
          /\ ret.val[1][k].name = CalledModels[k]
          /\ ret.val[1][k].jsds[p].jsd = call.model_vals[k][p]
          /\ ret.val[2][p].jsd = call.base_vals[p]

\* one warning for each pair with a negative JSD and none for the others;
\* the warning lists the models with a negative JSD, each once, followed by
\* "unmorphed" exactly when the baseline's JSD is negative
WarningsExact ==
    /\ \A p \in 1 .. Len(PairsOf(CalledBodyInv)) :
          LET pair == PairsOf(CalledBodyInv)[p]
              negative == {k \in 1 .. Len(CalledModels) :
                              call.model_vals[k][p] < 0}
              base_negative == call.base_vals[p] < 0
          IN  /\ Cardinality(WarningsFor(pair))
                    = IF negative # {} \/ base_negative THEN 1 ELSE 0
              /\ \A w \in WarningsFor(pair) :
                    LET listed == log[w].models
                        n == Cardinality(negative)
                    IN  /\ Len(listed) = n + (IF base_negative THEN 1 ELSE 0)
                        /\ {listed[i] : i \in 1 .. n}
                              = {CalledModels[k] : k \in negative}
                        /\ base_negative =>
                              listed[Len(listed)] = Lit("unmorphed")
    /\ \A w \in 1 .. Len(log) :
          \E p \in 1 .. Len(PairsOf(CalledBodyInv)) :
              w \in WarningsFor(PairsOf(CalledBodyInv)[p])

\* a jsds_to_reference that is handed a dataset together with its split
\* metadata returns, with exactly the warnings its JSDs call for
WarningLoopExact == JsdsComputed => (ReturnedJsds /\ WarningsExact)

\* the last call was a jsds_to_reference, given a dataset with its split
\* metadata or neither of them
JsdsCalled ==
    /\ call.op = "jsds_to_reference"
    /\ (call.dataset = PyNone) = (call.split_meta = PyNone)

\* C14: jsds_to_reference returns the model JSDs, the baseline JSDs and the
\* dataset, and for each (body, session) pair of the body inversion map it
\* has logged a warning if and only if a scan model or the unmorphed baseline
\* has a JSD below zero for the pair (a JSD of zero causes none), the warning
\* listing exactly the models with a negative JSD plus "unmorphed" exactly
\* when the baseline's is negative.
C14_NegativeJsdWarning == JsdsCalled => (ReturnedJsds /\ WarningsExact)

\* one model and the baseline are negative for the first pair, and the
\* second pair has a JSD of zero and no warning
WarningLoopExercised ==
    /\ JsdsComputed
    /\ ret.kind = "return"
    /\ Len(CalledModels) = 2
    /\ call.model_vals[1][1] = 1
    /\ call.model_vals[2][1] = -1
    /\ call.base_vals[1] = -1
    /\ call.model_vals[1][2] = 0
    /\ call.model_vals[2][2] = 0
    /\ call.base_vals[2] = 0
    /\ Len(log) = 1
    /\ log[1].models = <<CalledModels[2], Lit("unmorphed")>>

(***************************************************************************)
(* locked_pts (kpsn/io/features.py, 94-148).  An array of shape            *)
(* (n_frames, n_kpts, d) is a sequence of frames, a frame a sequence of    *)
(* keypoints, a keypoint a sequence of d numbers; flattened indices count  *)
(* from 0.                                                                 *)
(***************************************************************************)
MaxFrames == 2

\* (n_kpts, d) of the arrays reduced
KptShapes == {<<1, 1>>, <<2, 1>>, <<1, 2>>, <<2, 2>>, <<3, 1>>}

\* an array whose entries are non-zero and all different
KeypointArray(n_frames, n_kpts, d) ==
    [f \in 1 .. n_frames |->
        [k \in 1 .. n_kpts |-> [j \in 1 .. d |-> 100 * f + (k - 1) * d + j]]]

\* the sequences without repetition over a set of indices
RECURSIVE Orderings(_)
Orderings(S) ==
    IF S = {} THEN {<<>>}
    ELSE UNION {{<<i>> \o rest : rest \in Orderings(S \ {i})} : i \in S}

\* frame.reshape(-1)
RECURSIVE Flat(_)
Flat(frame) == IF frame = <<>> THEN <<>> ELSE Head(frame) \o Flat(Tail(frame))

\* row[~ix_mask]
RECURSIVE Masked(_, _, _)
Masked(row, ixs, n) ==
    IF n = 0 THEN <<>>
    ELSE Masked(row, ixs, n - 1)
         \o (IF \E k \in 1 .. Len(ixs) : ixs[k] = n - 1 THEN <<>>
             ELSE <<row[n]>>)

\* locked_pts.reduce_array(arr, config)
ReduceArray(arr, calib) ==
    [f \in 1 .. Len(arr) |->
        Masked(Flat(arr[f]), calib.reduce_ixs, Len(Flat(arr[f])))]

\* reduce_ixs in the order they are stored in
Unsorted(ixs) == ixs

\* sorted(calib["reduce_ixs"])
RECURSIVE Sorted(_)
Sorted(ixs) ==
    IF ixs = <<>> THEN <<>>
    ELSE LET least == CHOOSE k \in 1 .. Len(ixs) :
                          \A l \in 1 .. Len(ixs) : ixs[k] <= ixs[l]
         IN  <<ixs[least]>>
             \o Sorted(SubSeq(ixs, 1, least - 1)
                       \o SubSeq(ixs, least + 1, Len(ixs)))

\* jnp.insert(row, ix, 0, axis=-1); jax clips an index past the end
Insert(row, ix) ==
    LET at == IF ix > Len(row) THEN Len(row) ELSE ix
    IN  SubSeq(row, 1, at) \o <<0>> \o SubSeq(row, at + 1, Len(row))

RECURSIVE InsertAll(_, _)
InsertAll(row, ixs) ==
    IF ixs = <<>> THEN row ELSE InsertAll(Insert(row, Head(ixs)), Tail(ixs))

\* row.reshape((n_kpts, -1))
Reshape(row, n_kpts) ==
    LET d == Len(row) \div n_kpts
    IN  [k \in 1 .. n_kpts |-> SubSeq(row, (k - 1) * d + 1, k * d)]

\* locked_pts.inflate_array(arr, config): arr is (n_frames, n_features), or
\* one feature vector when `single`
InflateArray(arr, calib, single) ==
    LET rows == IF single THEN <<arr>> ELSE arr
        filled == [f \in 1 .. Len(rows) |->
                      InsertAll(rows[f], Sorted(calib.reduce_ixs))]
    IN  IF \E f \in 1 .. Len(filled) : Len(filled[f]) % calib.n_kpts # 0
        THEN Raised("TypeError")
        ELSE IF single THEN Returned(Reshape(filled[1], calib.n_kpts))
        ELSE Returned([f \in 1 .. Len(filled) |->
                          Reshape(filled[f], calib.n_kpts)])

\* an array of keypoints and a calibration whose reduce_ixs are flattened
\* indices of a frame, in some order
InitLocked ==
    /\ \E n_frames \in 1 .. MaxFrames, shape \in KptShapes :
        \E dropped \in SUBSET (0 .. shape[1] * shape[2] - 1) :
          \E reduce_ixs \in Orderings(dropped) :
            call = [op |-> "calibrate",
                    x |-> KeypointArray(n_frames, shape[1], shape[2]),
                    calib |-> [reduce_ixs |-> reduce_ixs, n_kpts |-> shape[1]],
                    frame |-> 0]
    /\ ret = Returned(<<>>)
    /\ dirs = {}
    /\ files = <<>>
    /\ NewTrace
    /\ NoRun
    /\ NoStyle

LockedReduce ==
    /\ pc = "idle"
    /\ pc' = "reduced"
    /\ call' = [call EXCEPT !.op = "reduce_array"]
    /\ ret' = Returned(ReduceArray(call.x, call.calib))
    /\ UNCHANGED <<traceVars, plotting, fsVars, idx, scan_cfg, model_cfg, force_restart,
                   log, fitLeft, failedAt, atCall>>

\* inflate_array of the reduced array
LockedInflate ==
    /\ pc = "reduced"
    /\ pc' = "done"
    /\ call' = [call EXCEPT !.op = "inflate_array"]
    /\ ret' = InflateArray(ret.val, call.calib, FALSE)
    /\ UNCHANGED <<traceVars, plotting, fsVars, idx, scan_cfg, model_cfg, force_restart,
                   log, fitLeft, failedAt, atCall>>

\* inflate_array of the feature vector of one frame
LockedInflateFrame(f) ==
    /\ pc = "reduced"
    /\ f \in 1 .. Len(ret.val)
    /\ pc' = "done"
    /\ call' = [call EXCEPT !.op = "inflate_array", !.frame = f]
    /\ ret' = InflateArray(ret.val[f], call.calib, TRUE)
    /\ UNCHANGED <<traceVars, plotting, fsVars, idx, scan_cfg, model_cfg, force_restart,
                   log, fitLeft, failedAt, atCall>>

NextLocked ==
    \/ LockedReduce
    \/ LockedInflate
    \/ \E f \in 1 .. MaxFrames : LockedInflateFrame(f)

SpecLocked == InitLocked /\ [][NextLocked]_vars

(***************************************************************************)
(* Properties of locked_pts                                                *)
(***************************************************************************)
\* the inflated frame has the shape of the frame of x and holds its entries,
\* with zero at the flattened indices that were dropped
FrameRestored(inflated, frame, reduce_ixs) ==
    /\ Len(inflated) = Len(frame)
    /\ \A k \in 1 .. Len(frame) :
          /\ Len(inflated[k]) = Len(frame[k])
          /\ \A j \in 1 .. Len(frame[k]) :
                inflated[k][j]
                    = IF \E i \in 1 .. Len(reduce_ixs) :
                            reduce_ixs[i] = (k - 1) * Len(frame[k]) + j - 1
                      THEN 0 ELSE frame[k][j]

\* C15: inflate_array(reduce_array(x)) has the shape of x, equals x at every
\* flattened index that is not in reduce_ixs and is zero at every index that
\* is, in whatever order reduce_ixs are stored; the feature vector of one
\* frame inflates to shape (n_kpts, d) with the same placement.
C15_LockedPtsRoundTrip ==
    (call.op = "inflate_array" /\ pc = "done") =>
        /\ ret.kind = "return"
        /\ call.frame = 0 =>
              /\ Len(ret.val) = Len(call.x)
              /\ \A f \in 1 .. Len(call.x) :
                    FrameRestored(ret.val[f], call.x[f], call.calib.reduce_ixs)
        /\ call.frame # 0 =>
              FrameRestored(ret.val, call.x[call.frame], call.calib.reduce_ixs)

\* a 2-by-2 frame with two indices dropped, stored in descending order
C15_Witness ==
    /\ call.op = "inflate_array"
    /\ pc = "done"
    /\ call.frame = 0
    /\ Len(call.x) = 2
    /\ call.calib.reduce_ixs = <<3, 1>>
    /\ ret.val[2] = <<<<201, 0>>, <<203, 0>>>>

(***************************************************************************)
(* pcs._calibrate (kpsn/io/features.py, 199-253): the choice of n_dims.    *)
(* Variances are integers and tgt_variance a number of hundredths, so that *)
(* scree > tgt_variance is decided without division.                       *)
(***************************************************************************)
MaxComponents == 3

VarianceValues == {1, 2, 4}

TgtHundredths == {50, 90, 98, 100}

PyInt(n) == [t |-> "int", v |-> n]

\* pcs._pcadata.variances(): the variances of the components, largest first
VarianceLists ==
    UNION {{v \in [1 .. n -> VarianceValues] :
                \A k \in 1 .. n - 1 : v[k] >= v[k + 1]} :
           n \in 1 .. MaxComponents}

\* jnp.cumsum(variances)
RECURSIVE Cumsum(_, _)
Cumsum(v, n) == IF n = 0 THEN 0 ELSE Cumsum(v, n - 1) + v[n]

\* (scree > tgt_variance)[c - 1], scree being cumsum / variances.sum()
ScreeExceeds(v, tgt, c) == 100 * Cumsum(v, c) > tgt * Cumsum(v, Len(v))

\* jnp.argmax of a boolean array: the index of its first True, and 0 when
\* it holds none
ArgMax(v, tgt) ==
    IF \E c \in 1 .. Len(v) : ScreeExceeds(v, tgt, c)
    THEN (CHOOSE c \in 1 .. Len(v) :
              /\ ScreeExceeds(v, tgt, c)
              /\ \A b \in 1 .. c - 1 : ~ScreeExceeds(v, tgt, b)) - 1
    ELSE 0

\* the n_dims entry of the dict pcs._calibrate returns
CalibratedNDims(v, tgt, n_dims) ==
    LET selected_ix == IF n_dims = PyNone THEN ArgMax(v, tgt)
                       ELSE n_dims.v - 1
    IN  selected_ix + 1

\* a dataset with these component variances is about to be calibrated
InitPcs ==
    /\ \E v \in VarianceLists, tgt \in TgtHundredths,
          n_dims \in {PyNone} \cup {PyInt(n) : n \in 1 .. MaxComponents} :
          call = [op |-> "dataset", variances |-> v, tgt_variance |-> tgt,
                  n_dims |-> n_dims]
    /\ ret = Returned([n_dims |-> 0])
    /\ dirs = {}
    /\ files = <<>>
    /\ NewTrace
    /\ NoRun
    /\ NoStyle

PcsCalibrate ==
    /\ pc = "idle"
    /\ pc' = "done"
    /\ call' = [call EXCEPT !.op = "pcs._calibrate"]
    /\ ret' = Returned([n_dims |-> CalibratedNDims(call.variances,
                                                   call.tgt_variance,
                                                   call.n_dims)])
    /\ UNCHANGED <<traceVars, plotting, fsVars, idx, scan_cfg, model_cfg, force_restart,
                   log, fitLeft, failedAt, atCall>>

NextPcs == PcsCalibrate

SpecPcs == InitPcs /\ [][NextPcs]_vars

(***************************************************************************)
(* Properties of pcs._calibrate                                            *)
(***************************************************************************)
PcsCalibrated == call.op = "pcs._calibrate"

\* the smallest component count whose cumulative fraction exceeds the target
IsSmallestExceeding(c) ==
    /\ c \in 1 .. Len(call.variances)
    /\ ScreeExceeds(call.variances, call.tgt_variance, c)
    /\ \A b \in 1 .. c - 1 :
          ~ScreeExceeds(call.variances, call.tgt_variance, b)

\* C16: without n_dims, the stored n_dims is the smallest component count
\* whose cumulative explained-variance fraction exceeds tgt_variance; with
\* n_dims, the stored n_dims is the value supplied, whatever the target.
C16_DimensionalitySelection ==
    PcsCalibrated =>
        /\ call.n_dims = PyNone => IsSmallestExceeding(ret.val.n_dims)
        /\ call.n_dims # PyNone => ret.val.n_dims = call.n_dims.v

\* the same, for targets that some component count exceeds
SelectionWhenReachable ==
    (PcsCalibrated
        /\ \E c \in 1 .. Len(call.variances) :
              ScreeExceeds(call.variances, call.tgt_variance, c)) =>
        /\ call.n_dims = PyNone => IsSmallestExceeding(ret.val.n_dims)
        /\ call.n_dims # PyNone => ret.val.n_dims = call.n_dims.v

(***************************************************************************)
(* Plotting styles (kpsn/viz/styles.py).  kpsn/viz/_style.py, which holds  *)
(* color_sets and colorset, is not among the source files: which names     *)
(* matplotlib knows, which have a style sheet in the resource directory    *)
(* and which have a palette in color_sets is drawn by Init, the default    *)
(* style being known to matplotlib and having a palette.  A palette is     *)
(* written as the name it is stored under.                                 *)
(***************************************************************************)
StyleNames == {"default", "vscode_dark", "ggplot"}

Contexts == {"paper", "talk"}

\* the styles matplotlib, the resource directory and color_sets may hold
StyleLibraries ==
    {[builtin |-> b \cup {"default"}, sheets |-> sh,
      color_sets |-> c \cup {"default"}] :
        b \in SUBSET (StyleNames \ {"default"}),
        sh \in SUBSET (StyleNames \ {"default"}),
        c \in SUBSET (StyleNames \ {"default"})}

\* a fallback that leaves the active color set as it is
KeepActive(p) == p.active

\* colorset.active = color_sets["default"] in the last except clause
FallbackActive(p) == "default"

\* set_style(style) in the plotting state p with the styles of lib: the
\* state it leaves, what it returns or raises and what it logs
SetStyleOutcome(p, lib, style) ==
    IF style \in lib.builtin /\ style \in lib.color_sets
    THEN [plotting |-> [p EXCEPT !.rc = style, !.active = style],
          ret |-> Returned("None"), log |-> <<>>]
    ELSE IF style \in lib.sheets /\ style \in lib.color_sets
    THEN [plotting |-> [p EXCEPT !.rc = style, !.active = style],
          ret |-> Returned("None"), log |-> <<>>]
    ELSE LET warned == <<[ev |-> "warning",
                          text |-> "No matplotlib style {style} found"]>>
         IN  IF "default" \in lib.color_sets
             THEN [plotting |-> [p EXCEPT !.rc = "default",
                                          !.active = FallbackActive(p)],
                   ret |-> Returned("None"), log |-> warned]
             ELSE [plotting |-> [p EXCEPT !.rc = "default"],
                   ret |-> Raised("KeyError"), log |-> warned]

\* plot_finalizer(plot_dir, **kws)
PlotFinalizer(plot_dir, kws) ==
    [t |-> "plot_finalizer", plot_dir |-> plot_dir, kws |-> kws]

\* init_nb(plot_dir, style, context, **kws)
InitNbOutcome(p, lib, plot_dir, style, context, kws) ==
    LET styled == SetStyleOutcome(p, lib, style)
    IN  IF styled.ret.kind = "raise" THEN styled
        ELSE
        LET active_style == styled.plotting.active
            in_context == [styled.plotting EXCEPT !.context = context]
        IN  IF style \notin lib.color_sets      \* clr = color_sets[style]
            THEN [plotting |-> in_context, ret |-> Raised("KeyError"),
                  log |-> styled.log]
            ELSE [plotting |-> in_context,
                  ret |-> Returned(<<PlotFinalizer(plot_dir, kws), active_style>>),
                  log |-> styled.log]

\* a process that has imported the module and selected no style
InitStyles ==
    /\ \E lib \in StyleLibraries :
          call = [op |-> "import", lib |-> lib, was |-> "none"]
    /\ ret = Returned("None")
    /\ dirs = {}
    /\ files = <<>>
    /\ NewTrace
    /\ NoRun
    /\ NoStyle

SetStyle(style) ==
    LET out == SetStyleOutcome(plotting, call.lib, style)
    IN  /\ plotting' = out.plotting
        /\ ret' = out.ret
        /\ log' = out.log
        /\ call' = [op |-> "set_style", lib |-> call.lib,
                    was |-> plotting.active, style |-> style]
        /\ UNCHANGED <<traceVars, fsVars, pc, idx, scan_cfg, model_cfg,
                       force_restart, fitLeft, failedAt, atCall>>

InitNb(plot_dir, style, context, kws) ==
    LET out == InitNbOutcome(plotting, call.lib, plot_dir, style, context, kws)
    IN  /\ plotting' = out.plotting
        /\ ret' = out.ret
        /\ log' = out.log
        /\ call' = [op |-> "init_nb", lib |-> call.lib,
                    was |-> plotting.active, style |-> style,
                    plot_dir |-> plot_dir, context |-> context, kws |-> kws]
        /\ UNCHANGED <<traceVars, fsVars, pc, idx, scan_cfg, model_cfg,
                       force_restart, fitLeft, failedAt, atCall>>

NextStyles ==
    \/ \E style \in StyleNames : SetStyle(style)
    \/ \E style \in StyleNames, context \in Contexts :
          InitNb("plots", style, context, [fmt |-> "pdf"])

SpecStyles == InitStyles /\ [][NextStyles]_vars

(***************************************************************************)
(* Properties of the plotting styles                                       *)
(***************************************************************************)
\* the style resolves as a built-in style or as a style sheet of the
\* resource directory: matplotlib takes it from there and color_sets has its
\* palette
Resolves(lib, style) ==
    \/ style \in lib.builtin /\ style \in lib.color_sets
    \/ style \in lib.sheets /\ style \in lib.color_sets

ResolvedStyle(lib, style) == IF Resolves(lib, style) THEN style ELSE "default"

C18_InitNbAnyStyle ==
    call.op = "init_nb" =>
        /\ ret.kind = "return"
        /\ ret.val[1] = PlotFinalizer(call.plot_dir, call.kws)
        /\ ret.val[2] = plotting.active
        /\ plotting.active = ResolvedStyle(call.lib, call.style)
        /\ plotting.context = call.context

\* the same, for the styles that have a palette in color_sets
InitNbWithPalette ==
    (call.op = "init_nb" /\ call.style \in call.lib.color_sets) =>
        /\ ret.kind = "return"
        /\ ret.val[1] = PlotFinalizer(call.plot_dir, call.kws)
        /\ ret.val[2] = plotting.active
        /\ plotting.active = ResolvedStyle(call.lib, call.style)
        /\ plotting.context = call.context

(***************************************************************************)
(* InverseWishart._variance (kpsn/util.py).  A two-dimensional array is a  *)
(* record of its shape and its entries, indices counted from 1; arithmetic *)
(* between arrays follows numpy broadcasting.  Entries of the scale and    *)
(* df are integers and a quotient is kept as numerator and denominator.    *)
(***************************************************************************)
MaxDim == 3

DiagValues == {4, 5}

OffDiagValues == {0, 1}

DfValues == {8, 9}

\* shapes of the leading dimensions of scale
BatchShapes == {<<>>, <<2>>, <<1, 2>>}

\* .repeat(3, ...)
Repeats == 3

Arr(r, c, f(_, _)) ==
    [shape |-> <<r, c>>,
     at |-> [ij \in (1 .. r) \X (1 .. c) |-> f(ij[1], ij[2])]]

Larger(a, b) == IF a >= b THEN a ELSE b

\* numpy's rule for two shapes of the same rank
Broadcastable(a, b) ==
    \A ax \in 1 .. 2 :
        a.shape[ax] = b.shape[ax] \/ a.shape[ax] = 1 \/ b.shape[ax] = 1

\* the entry of a that takes part in entry (i, j) of a broadcast result
Pick(a, i, j) ==
    a.at[<<IF a.shape[1] = 1 THEN 1 ELSE i, IF a.shape[2] = 1 THEN 1 ELSE j>>]

Elementwise(a, b, op(_, _)) ==
    Arr(Larger(a.shape[1], b.shape[1]), Larger(a.shape[2], b.shape[2]),
        LAMBDA i, j : op(Pick(a, i, j), Pick(b, i, j)))

\* the symmetric k-by-k scale matrices
OffDiagonal(k) == {{i, j} : i \in 1 .. k, j \in 1 .. k} \ {{i} : i \in 1 .. k}

ScaleMatrices(k) ==
    {Arr(k, k, LAMBDA i, j : IF i = j THEN d[i] ELSE o[{i, j}]) :
        d \in [1 .. k -> DiagValues], o \in [OffDiagonal(k) -> OffDiagValues]}

\* element e of a batched scale built on S
BatchElement(S, e) == Arr(S.shape[1], S.shape[2], LAMBDA i, j : e * S.at[<<i, j>>])

\* _single_variance(df, scale); df has been broadcast to the shape of scale
\* and holds one value
SingleVariance(df, scale) ==
    LET dim == scale.shape[2]
        diag == [i \in 1 .. dim |-> scale.at[<<i, i>>]]
        rows == Arr(dim, Repeats, LAMBDA i, c : i)
        cols == Arr(Repeats, dim, LAMBDA r, j : j)
        diag_rows == Arr(dim, Repeats, LAMBDA i, c : diag[rows.at[<<i, c>>]])
        diag_cols == Arr(Repeats, dim, LAMBDA r, j : diag[cols.at[<<r, j>>]])
        dfs == Arr(dim, dim, LAMBDA i, j : df)
        squares == Arr(dim, dim, LAMBDA i, j :
                       (dfs.at[<<i, j>>] - dim + 1) * scale.at[<<i, j>>] * scale.at[<<i, j>>])
        denom == Arr(dim, dim, LAMBDA i, j :
                       (dfs.at[<<i, j>>] - dim) * (dfs.at[<<i, j>>] - dim - 1)
                       * (dfs.at[<<i, j>>] - dim - 1) * (dfs.at[<<i, j>>] - dim - 3))
    IN  IF ~Broadcastable(diag_rows, diag_cols) THEN Raised("ValueError")
        ELSE
        LET products == Elementwise(diag_rows, diag_cols, LAMBDA x, y : x * y)
            scaled == Arr(products.shape[1], products.shape[2], LAMBDA i, j :
                          (Pick(dfs, i, j) - dim - 1) * products.at[<<i, j>>])
        IN  IF ~Broadcastable(squares, scaled) THEN Raised("ValueError")
            ELSE
            LET numer == Elementwise(squares, scaled, LAMBDA x, y : x + y)
            IN  IF ~Broadcastable(numer, denom) THEN Raised("ValueError")
                ELSE Returned(Elementwise(numer, denom,
                                          LAMBDA x, y : [num |-> x, den |-> y]))

\* _variance() of InverseWishart(df, scale), scale of shape batch + (k, k)
\* whose elements are the multiples of S: the elements of the result along
\* the leading dimensions
VarianceOutcome(df, S, batch) ==
    IF batch = <<>> THEN
        LET one == SingleVariance(df, S)
        IN  IF one.kind = "raise" THEN one
            ELSE Returned([batch |-> <<>>, elems |-> <<one.val>>])
    ELSE IF Len(batch) > 1 THEN Raised("AssertionError")  \* assert scale.ndim == 2
    ELSE LET each == [e \in 1 .. batch[1] |-> SingleVariance(df, BatchElement(S, e))]
         IN  IF \E e \in 1 .. batch[1] : each[e].kind = "raise"
             THEN each[CHOOSE e \in 1 .. batch[1] : each[e].kind = "raise"]
             ELSE Returned([batch |-> batch,
                            elems |-> [e \in 1 .. batch[1] |-> each[e].val]])

InitWishart ==
    /\ \E k \in 1 .. MaxDim, df \in DfValues, batch \in BatchShapes :
          \E S \in ScaleMatrices(k) :
              call = [op |-> "InverseWishart", k |-> k, df |-> df, scale |-> S,
                      batch |-> batch]
    /\ ret = Returned("None")
    /\ dirs = {}
    /\ files = <<>>
    /\ NewTrace
    /\ NoRun
    /\ NoStyle

Variance ==
    /\ pc = "idle"
    /\ pc' = "done"
    /\ call' = [call EXCEPT !.op = "variance"]
    /\ ret' = VarianceOutcome(call.df, call.scale, call.batch)
    /\ UNCHANGED <<traceVars, plotting, fsVars, idx, scan_cfg, model_cfg, force_restart,
                   log, fitLeft, failedAt, atCall>>

NextWishart == Variance

SpecWishart == InitWishart /\ [][NextWishart]_vars

\* entry (i, j) of the matrix v is the quotient of the formula for scale S
EntryAsStated(v, df, k, S, i, j) ==
    v.at[<<i, j>>].num * ((df - k) * (df - k - 1) * (df - k - 1) * (df - k - 3))
        = ((df - k + 1) * S.at[<<i, j>>] * S.at[<<i, j>>]
              + (df - k - 1) * S.at[<<i, i>>] * S.at[<<j, j>>]) * v.at[<<i, j>>].den

MatrixAsStated(v, df, k, S) ==
    /\ v.shape = <<k, k>>
    /\ \A i \in 1 .. k, j \in 1 .. k : EntryAsStated(v, df, k, S, i, j)

VarianceAsStated ==
    /\ ret.kind = "return"
    /\ ret.val.batch = call.batch
    /\ Len(ret.val.elems) = Prod(call.batch)
    /\ \A e \in 1 .. Len(ret.val.elems) :
          MatrixAsStated(ret.val.elems[e], call.df, call.k,
                         IF call.batch = <<>> THEN call.scale
                         ELSE BatchElement(call.scale, e))

\* C19: for every dimension k >= 1 and every k-by-k scale, single or batched
\* over leading dimensions, the variance is a k-by-k matrix per batch element
\* whose (i, j) entry is [(df-k+1) S[i,j]^2 + (df-k-1) S[i,i] S[j,j]] /
\* [(df-k) (df-k-1)^2 (df-k-3)].
C19_EntrywiseVariance ==
    call.op = "variance" => VarianceAsStated

\* the same, for a 3-by-3 scale with at most one leading dimension
VarianceOfThreeByThree ==
    (call.op = "variance" /\ call.k = Repeats /\ Len(call.batch) <= 1) =>
        VarianceAsStated

VarianceOfThreeByThreeChecked ==
    /\ call.op = "variance"
    /\ call.k = Repeats
    /\ call.batch = <<2>>
    /\ \E i \in 1 .. 3, j \in 1 .. 3 : i # j /\ call.scale.at[<<i, j>>] # 0

(***************************************************************************)
(* run_scan: the configuration each model is created with                  *)
(***************************************************************************)
RunScanCompleted == RunScanCalled /\ pc = "done" /\ ret = Returned("None")

\* base_model.yml of the scan with the overrides of manifest model k merged
\* onto it
OwnConfig(k) ==
    RecursiveUpdate(files[ScanBaseModelYml(ScanName)],
                    Deepen(ManifestModels[k].params))

EachModelHasOwnConfig ==
    \A k \in 1 .. Len(ManifestModels) :
        /\ ModelConfig(ManifestNames[k]) \in DOMAIN files
        /\ files[ModelConfig(ManifestNames[k])] = OwnConfig(k)

\* every model of the manifest overrides the same parameters
UniformManifest ==
    \A k \in 1 .. Len(ManifestModels) :
        DOMAIN ManifestModels[k].params = DOMAIN ManifestModels[1].params

PerModelConfigAsLaid ==
    (RunScanCompleted /\ UniformManifest) => EachModelHasOwnConfig

\* the same, when no create_model call left its merge in the loaded base
\* config
PerModelConfigUnshared ==
    (RunScanCompleted /\ model_cfg = files[ScanBaseModelYml(ScanName)]) =>
        EachModelHasOwnConfig

PerModelConfigExercised ==
    /\ RunScanCompleted
    /\ Len(ManifestModels) = 2
    /\ ~UniformManifest
    /\ EachModelHasOwnConfig

(***************************************************************************)
(* pcs._calibrate: the rows the PCA is fitted on (kpsn/io/features.py).    *)
(* Rows are written as their indices, counted from 1.  jr.choice with      *)
(* replace=False draws distinct indices that depend on the key alone; the  *)
(* draw is written as a rotation of the rows by the seed.                  *)
(***************************************************************************)
MaxRows == 4

SubsetSeeds == {0, 1, 823}

\* jr.choice(jr.PRNGKey(seed), n, (k,), replace=False)
Choice(seed, n, k) ==
    IF k > n THEN Raised("ValueError")  \* a larger sample than the population
    ELSE Returned([i \in 1 .. k |-> ((i - 1 + seed) % n) + 1])

\* flat_data as fit_with_center receives it, for a dataset of n_rows rows
CalibrationRows(n_rows, max_pts, subset_seed) ==
    IF max_pts # PyNone
    THEN LET subset == Choice(subset_seed, n_rows, max_pts.v)
         IN  IF subset.kind = "raise" THEN subset
             ELSE Returned(subset.val)          \* flat_data[subset]
    ELSE Returned([i \in 1 .. n_rows |-> i])

InitSubsample ==
    /\ \E n_rows \in 1 .. MaxRows, subset_seed \in SubsetSeeds,
          max_pts \in {PyNone} \cup {PyInt(k) : k \in 1 .. MaxRows + 1} :
          call = [op |-> "dataset", n_rows |-> n_rows, max_pts |-> max_pts,
                  subset_seed |-> subset_seed]
    /\ ret = Returned("None")
    /\ dirs = {}
    /\ files = <<>>
    /\ NewTrace
    /\ NoRun
    /\ NoStyle

PcsSubsample ==
    /\ pc = "idle"
    /\ call' = [call EXCEPT !.op = "pcs._calibrate"]
    /\ ret' = CalibrationRows(call.n_rows, call.max_pts, call.subset_seed)
    /\ pc' = IF ret'.kind = "raise" THEN "raised" ELSE "done"
    /\ UNCHANGED <<traceVars, plotting, fsVars, idx, scan_cfg, model_cfg, force_restart,
                   log, fitLeft, failedAt, atCall>>

NextSubsample == PcsSubsample

SpecSubsample == InitSubsample /\ [][NextSubsample]_vars

SubsampleCalled == call.op = "pcs._calibrate" /\ "n_rows" \in DOMAIN call

RowsUsed == {ret.val[i] : i \in 1 .. Len(ret.val)}

\* distinct rows of the dataset
WithoutReplacement ==
    /\ RowsUsed \subseteq 1 .. call.n_rows
    /\ Cardinality(RowsUsed) = Len(ret.val)

Subsampled ==
    /\ ret.kind = "return"
    /\ Len(ret.val) = call.max_pts.v
    /\ WithoutReplacement

EveryRowUsed ==
    /\ ret.kind = "return"
    /\ Len(ret.val) = call.n_rows
    /\ RowsUsed = 1 .. call.n_rows

\* C21: the calibration data is subsampled without replacement to exactly
\* max_pts rows only when the dataset has more than max_pts rows; when it has
\* max_pts rows or fewer, or max_pts is absent, calibration uses every row
\* and completes.
C21_SubsampleOnlyWhenLarger ==
    SubsampleCalled =>
        IF call.max_pts # PyNone /\ call.n_rows > call.max_pts.v
        THEN Subsampled
        ELSE EveryRowUsed

\* the same, for a dataset of at least max_pts rows or without max_pts
SubsampleWhenEnoughRows ==
    (SubsampleCalled /\ (call.max_pts = PyNone \/ call.n_rows >= call.max_pts.v)) =>
        IF call.max_pts # PyNone /\ call.n_rows > call.max_pts.v
        THEN Subsampled
        ELSE EveryRowUsed

(***************************************************************************)
(* model_withinbody_reconst_errs (kpsn/fitting/scans.py).  The local names *)
(* of the call are a function from the names bound so far to their values: *)
(* reading a name that no statement has bound yet raises.                  *)
(***************************************************************************)
WithinbodyMaps ==
    BodyInvMaps
        \cup { <<[body |-> "b1", sessions |-> <<"s1", "s2", "s3">>]>>,
               <<[body |-> "b1", sessions |-> <<"s2", "s1">>],
                 [body |-> "b2", sessions |-> <<"s3">>]>> }

\* the keys of a body inversion map, and _body_inv[b]
BodiesOf(map) == {map[k].body : k \in 1 .. Len(map)}

SessionsOf(map, b) == map[CHOOSE k \in 1 .. Len(map) : map[k].body = b].sessions

\* dataset.sess_bodies[s]: after the split each session is a body of its own
SessBodies(s) == [split_body_of |-> s]

RefSession == "s1"

\* apply_bodies(model.morph, params, subset, {s: global_ref_body ...}) and
\* _inflate of it, for session s taken to have the body `body`
Mapped(s, body) ==
    [t |-> "keypoints", session |-> s, body |-> body,
     morphed_to |-> SessBodies(RefSession), inflated |-> TRUE]

\* reconst_errs(a, b)
ReconstErrs(a, b) == [t |-> "reconst_errs", of |-> a, against |-> b]

\* the body of the loop for body b: errs[b]
ErrsOfBody(map, b) ==
    LET nonref_sessions == Tail(SessionsOf(map, b))
        ref_body == SessBodies(Head(SessionsOf(map, b)))
    IN  [s \in {nonref_sessions[i] : i \in 1 .. Len(nonref_sessions)} |->
            ReconstErrs(Mapped(s, ref_body), Mapped(s, SessBodies(s)))]

\* for b in pbar: ... over the items of iterable
ErrsOver(map, iterable) ==
    IF \E i \in 1 .. Len(iterable) : iterable[i] \notin BodiesOf(map)
    THEN Raised("KeyError")
    ELSE Returned([b \in {iterable[i] : i \in 1 .. Len(iterable)} |->
                      ErrsOfBody(map, b)])

\* the names bound when pbar = _optional_pbar(_body_inv[b], progress) runs:
\* the parameters and the names assigned above it
LocalsAtPbar(model_name, dataset, body_inv, inflate, progress) ==
    [project |-> AProject, model_name |-> model_name, dataset |-> dataset,
     body_inv |-> body_inv, inflate |-> inflate, progress |-> progress,
     checkpoint |-> "checkpoint", cfg |-> "cfg", model |-> "model",
     global_ref_body |-> SessBodies(RefSession), errs |-> <<>>]

\* from pbar = _optional_pbar(_body_inv[b], progress) to return errs
ErrsFromPbar(locals) ==
    IF "b" \notin DOMAIN locals THEN Raised("UnboundLocalError")
    ELSE ErrsOver(locals.body_inv.map,
                  SessionsOf(locals.body_inv.map, locals["b"]))

\* the call once checkpoint and config are loaded, loaded being what the
\* branch for an absent dataset gave
WithinbodyWithDataset(loaded, model_name, progress) ==
    IF loaded.kind = "raise" THEN loaded
    ELSE ErrsFromPbar(LocalsAtPbar(model_name, loaded.val[1], loaded.val[2],
                                   "inflate", progress))

\* model_withinbody_reconst_errs(project, model_name, dataset, _body_inv,
\* _inflate, progress)
WithinbodyReconstErrsOutcome(f, model_name, dataset, body_inv, inflate, progress) ==
    IF Checkpoint(model_name) \notin DOMAIN f THEN Raised("FileNotFoundError")
    ELSE IF ModelConfig(model_name) \notin DOMAIN f
    THEN Raised("FileNotFoundError")
    ELSE IF dataset = PyNone
    THEN WithinbodyWithDataset(
             CallerOutcome(f, "model_withinbody_reconst_errs", model_name).ret,
             model_name, progress)
    ELSE ErrsFromPbar(LocalsAtPbar(model_name, dataset, body_inv, inflate,
                                   progress))

ModelWithinbodyReconstErrs(model_name, dataset, body_inv, inflate, progress) ==
    /\ pc = "idle"
    /\ call' = [op |-> "model_withinbody_reconst_errs",
                model_name |-> model_name, dataset |-> dataset,
                body_inv |-> body_inv, inflate |-> inflate,
                progress |-> progress]
    /\ ret' = WithinbodyReconstErrsOutcome(files, model_name, dataset, body_inv,
                                           inflate, progress)
    /\ pc' = IF ret'.kind = "raise" THEN "raised" ELSE "done"
    /\ UNCHANGED <<traceVars, plotting, fsVars, idx, scan_cfg, model_cfg,
                   force_restart, log, fitLeft, failedAt, atCall>>

NextWithinbody ==
    \/ \E model_name \in {Format(DefaultFmt, ScanName, 0),
                          Format(DefaultFmt, ScanName, 1), Lit("unfitted")},
          map \in WithinbodyMaps, progress \in BOOLEAN :
            ModelWithinbodyReconstErrs(model_name, ADataset, ABodyInv(map),
                                       "inflate", progress)
    \/ \E model_name \in {Format(DefaultFmt, ScanName, 0),
                          Format(DefaultFmt, ScanName, 1)},
          progress \in BOOLEAN :
            ModelWithinbodyReconstErrs(model_name, PyNone, PyNone, PyNone,
                                       progress)

SpecWithinbody == InitPrepare /\ [][NextWithinbody]_vars

\* the call is made for a fitted model with a prepared dataset, a body
\* inversion map and an inflate function
WithinbodyCalledWithData ==
    /\ call.op = "model_withinbody_reconst_errs"
    /\ call.dataset # PyNone
    /\ Checkpoint(call.model_name) \in DOMAIN files
    /\ ModelConfig(call.model_name) \in DOMAIN files

\* one entry per body, keyed by the sessions of the body but the first, each
\* the error between the session under its split body and under the body of
\* the first session
ResultAsStated(val, map) ==
    /\ DOMAIN val = BodiesOf(map)
    /\ \A b \in BodiesOf(map) :
          LET sessions == SessionsOf(map, b)
          IN  /\ DOMAIN val[b] = {sessions[i] : i \in 2 .. Len(sessions)}
              /\ \A s \in DOMAIN val[b] :
                    val[b][s] = ReconstErrs(
                                    Mapped(s, SessBodies(sessions[1])),
                                    Mapped(s, SessBodies(s)))

\* C22: given a fitted model, a prepared dataset, a body inversion map and an
\* inflate function, model_withinbody_reconst_errs completes and returns a
\* mapping with one entry per body of the map, keyed by exactly the held-out
\* sessions of the body (all but the first), each holding the error between
\* the session morphed under its split body and under the reference body.
C22_WithinbodyResultStructure ==
    WithinbodyCalledWithData =>
        /\ ret.kind = "return"
        /\ ResultAsStated(ret.val, call.body_inv.map)

\* the loop over the bodies of a map, had it been entered, gives the stated
\* structure
LoopOverBodiesAsStated ==
    WithinbodyCalledWithData =>
        \A order \in [1 .. Cardinality(BodiesOf(call.body_inv.map)) ->
                          BodiesOf(call.body_inv.map)] :
            (\A b \in BodiesOf(call.body_inv.map) : \E i \in DOMAIN order : order[i] = b)
                => /\ ErrsOver(call.body_inv.map, order).kind = "return"
                   /\ ResultAsStated(ErrsOver(call.body_inv.map, order).val,
                                     call.body_inv.map)

(***************************************************************************)
(* pcs calibration and validation (kpsn/io/features.py).  A configuration  *)
(* is a document as above; arrays are written as their names.              *)
(***************************************************************************)
\* the features section as the defaults of pcs give it
PcsFeatures ==
    (<<"type">> :> "pcs") @@ (<<"calibration", "tgt_variance">> :> "0.98")
        @@ (<<"max_pts">> :> "10000") @@ (<<"subset_seed">> :> "823")

\* keys a configuration may hold before it is calibrated
UserKeySets ==
    {EmptyDoc,
     (<<"n_components">> :> "2"),
     (<<"calibration_data", "n_components">> :> "2")
         @@ (<<"calibration_data", "n_kpts">> :> "2"),
     (<<"n_components">> :> "2") @@ (<<"n_kpts">> :> "2")}

PcsConfigs ==
    {Nest(<<"features">>, DictUnpack(PcsFeatures, user)) @@ (<<"dataset">> :> "mice") :
        user \in UserKeySets}

\* d[k1][k2]... = sub
SetAtPath(doc, path, sub) ==
    LET keep == {q \in DOMAIN doc : ~IsPrefix(path, q)}
        put == Nest(path, sub)
    IN  [q \in keep \cup DOMAIN put |-> IF q \in DOMAIN put THEN put[q] ELSE doc[q]]

\* the dict pcs._calibrate returns
PcsCalibrationData(n_kpts, n_dims) ==
    (<<"pcs">> :> "pcs") @@ (<<"center">> :> "center")
        @@ (<<"mean_errs">> :> "mean_errs") @@ (<<"n_kpts">> :> Str(n_kpts))
        @@ (<<"n_dims">> :> Str(n_dims))

\* reducer.calibrate(dataset, config) for pcs: calibration_data is set to
\* dict(kpt_names=...) and updated with what _calibrate returns
PcsCalibrateConfig(config, n_kpts, n_dims) ==
    SetAtPath(config, <<"features", "calibration_data">>,
              DictUnpack((<<"kpt_names">> :> "kpt_names"),
                         PcsCalibrationData(n_kpts, n_dims)))

\* config.get(key) is None
Missing(config, key) == \A q \in DOMAIN config : Head(q) # key

\* pcs._validate_config(config)
PcsValidateConfig(config) ==
    IF Missing(config, "n_components") THEN Raised("ValueError")
    ELSE IF Missing(config, "n_kpts") THEN Raised("ValueError")
    ELSE Returned("None")

\* the dicts of a configuration that validation may be handed
ConfigLevels == {<<>>, <<"features">>, <<"features", "calibration_data">>}

InitValidate ==
    /\ \E config \in PcsConfigs :
          call = [op |-> "config", config |-> config, calibrated |-> FALSE]
    /\ ret = Returned("None")
    /\ dirs = {}
    /\ files = <<>>
    /\ NewTrace
    /\ NoRun
    /\ NoStyle

CalibratePcs(n_kpts, n_dims) ==
    /\ pc = "idle"
    /\ pc' = "calibrated"
    /\ call' = [op |-> "pcs.calibrate",
                config |-> PcsCalibrateConfig(call.config, n_kpts, n_dims),
                calibrated |-> TRUE]
    /\ ret' = Returned("config")
    /\ UNCHANGED <<traceVars, plotting, fsVars, idx, scan_cfg, model_cfg,
                   force_restart, log, fitLeft, failedAt, atCall>>

ValidatePcs(level) ==
    /\ pc \in {"idle", "calibrated"}
    /\ pc' = "done"
    /\ call' = [op |-> "pcs._validate_config", config |-> call.config,
                calibrated |-> call.calibrated, level |-> level]
    /\ ret' = PcsValidateConfig(Sub(call.config, level))
    /\ UNCHANGED <<traceVars, plotting, fsVars, idx, scan_cfg, model_cfg,
                   force_restart, log, fitLeft, failedAt, atCall>>

NextValidate ==
    \/ \E n_kpts \in 1 .. 3, n_dims \in 1 .. MaxComponents :
          CalibratePcs(n_kpts, n_dims)
    \/ \E level \in ConfigLevels : ValidatePcs(level)

SpecValidate == InitValidate /\ [][NextValidate]_vars

Validated == call.op = "pcs._validate_config"

\* the keys of the calibration data of the configuration at hand
StoredKeys ==
    {Head(q) : q \in DOMAIN Sub(call.config, <<"features", "calibration_data">>)}

\* C23: the calibration data pcs calibration stores holds every key pcs
\* validation requires (n_components and n_kpts), so validating a
\* configuration right after calibrating it reports no error; validation
\* fails only for a configuration that was never calibrated.
C23_CalibrationSatisfiesValidation ==
    /\ (call.op = "pcs.calibrate") => {"n_components", "n_kpts"} \subseteq StoredKeys
    /\ (Validated /\ call.calibrated) => ret.kind = "return"
    /\ (Validated /\ ret.kind = "raise") => ~call.calibrated

\* what calibration stores, and what validating the stored data gives
StoredCalibrationData ==
    /\ (call.op = "pcs.calibrate") =>
          StoredKeys = {"kpt_names", "pcs", "center", "mean_errs", "n_kpts", "n_dims"}
    /\ (Validated /\ call.calibrated
            /\ call.level = <<"features", "calibration_data">>) =>
          ret = Raised("ValueError")

====
